---- MODULE Spec2Model ----
(***************************************************************************)
(* Model of the copy-trading monitor (copy_trader_pumpfun) of              *)
(* src/src/application/monitor.rs: the event loop, the spawned buy tasks,  *)
(* the 5-second position sweep and the forced-sell tasks it spawns, all    *)
(* sharing the ledger (existing_liquidity_pools) and BUYING_ENABLED.       *)
(*                                                                         *)
(* Granularity: one action per mutex scope.  Every scope of the ledger     *)
(* mutex is a single read or a single retain+insert, so it is one atomic   *)
(* step.  BUYING_ENABLED is held across a ledger write only in the failure *)
(* arms of the buy task; flag_holder models that holder.  The outcome of a *)
(* network call (build_swap_ixn_by_mint, get_latest_blockhash,             *)
(* new_signed_and_send_zeroslot) is a nondeterministic choice made at the  *)
(* step that consumes it.  buy_price / sell_price of LiquidityPool are not *)
(* carried: no modelled branch reads them.                                 *)
(*                                                                         *)
(* The quote and slippage functions and the buy and sell-all paths of      *)
(* build_swap_ixn_by_mint of src/src/infrastructure/dex/pump_swap.rs are   *)
(* operators; SpecAmm applies them to sampled arguments, one call at a     *)
(* time, and keeps the call and its result in amm.                         *)
(*                                                                         *)
(* SpecArb is the arbitrage sweep of arbitrage_monitor over its price      *)
(* table; SpecCache is PoolCacheManager of                                 *)
(* src/src/application/pool_discovery.rs with its cache file; SpecStream   *)
(* is the front end of the event loop (ping replies, classification by     *)
(* TradeInfoFromToken::from_json, the loop's exits) with the keepalive     *)
(* task.  SpecStartup is the subscribe loop that precedes it.  SpecLocks   *)
(* is the lock discipline of the tasks of either monitor: each task is a   *)
(* program of lock, unlock, await and spawn steps.  SpecTrack is           *)
(* TOKEN_TRACKING under the price tasks, one step per lock scope.          *)
(* SpecClassify applies from_json to log lists on their own.  Each         *)
(* specification leaves the variables of the others unchanged.             *)
(***************************************************************************)
EXTENDS Integers, FiniteSets, Sequences, Bags, TLC

\* ---------------------------------------------------------------- bounds
NumMints == 2
MaxTime == 2
MaxBuyTasks == 2
MaxSellTasks == 2
\* Amounts 0..MaxSmall are enumerated next to the sampled large amounts.
MaxSmall == 6
\* Log lines of a transaction.
MaxLogLines == 2

\* ------------------------------------------------------------- constants
\* MAX_WAIT_TIME in clock units of the model (monitor.rs: env, ms).
MAX_WAIT_TIME == 1
\* min_dev_buy / max_dev_buy parameters of copy_trader_pumpfun (SOL).
min_dev_buy == 1
max_dev_buy == 2
LAMPORTS_PER_SOL == 1000000000

Mints == 1..NumMints
NoMint == 0
None == -1
Free == [mint |-> NoMint, stage |-> "none"]

InstructionType == {"SwapBuy", "SwapSell", "ArbitrageSwap"}
copy_trading_target_addresses == {"T1"}
Addresses == {"T1", "X"}
\* volume_change samples: 0.5 SOL, -1.5 SOL, 2.1 SOL
VolumeChanges == {500000000, -1500000000, 2100000000}

\* TradeInfoFromToken as read by the event loop.
Events == [instruction_type : InstructionType, target : Addresses,
           mint : Mints, volume_change : VolumeChanges]
NoEvent == [instruction_type |-> "none", mint |-> NoMint]

Abs(x) == IF x < 0 THEN -x ELSE x

\* Variant: the lower limit compared with lamports, without the conversion.
AmountBelowMinUnscaled(vc) == Abs(vc) < min_dev_buy

\* buy_amount = lamports_to_sol(|volume_change|) compared with the limits:
\* lamports / 1e9 > max  <=>  lamports > max * 1e9 (exact for these values).
AmountExceedsMax(vc) == Abs(vc) > max_dev_buy * LAMPORTS_PER_SOL
AmountBelowMin(vc) == Abs(vc) < min_dev_buy * LAMPORTS_PER_SOL

\* ------------------------------------------- PumpSwap quote arithmetic
\* src/src/infrastructure/dex/pump_swap.rs.  u64 is modelled with a 30-bit
\* word: every checked_* test compares against U64_MAX exactly as the 64-bit
\* operation compares against 2^64 - 1, and every intermediate value of the
\* model stays below 2^31.
U64_MAX == 1073741823
TEN_THOUSAND == 10000

\* Option<u64>: None, or the value.
CheckedAdd(a, b) == IF a + b > U64_MAX THEN None ELSE a + b
CheckedSub(a, b) == IF b > a THEN None ELSE a - b
CheckedMul(a, b) == IF b # 0 /\ a > U64_MAX \div b THEN None ELSE a * b
CheckedDiv(a, b) == IF b = 0 THEN None ELSE a \div b
UnwrapOr(o, d) == IF o = None THEN d ELSE o

\* The double-width product (u128 in the source) is never formed: quotient
\* and remainder <<floor(a * b / d), (a * b) % d>>, d > 0, are carried as a
\* pair through the expansion of b in three 10-bit limbs.
Limb == 1024

\* <<q, r>> + <<q', r'>>, remainders below d.
AddQR(p, s, d) ==
    IF p[2] + s[2] >= d THEN <<p[1] + s[1] + 1, p[2] + s[2] - d>>
    ELSE <<p[1] + s[1], p[2] + s[2]>>

\* a * b as a pair, for a multiplier b <= Limb, by binary expansion of b.
RECURSIVE MulQR(_, _, _)
MulQR(a, b, d) ==
    IF b = 0 THEN <<0, 0>>
    ELSE LET h == MulQR(a, b \div 2, d)
             t == AddQR(h, h, d)
         IN  IF b % 2 = 0 THEN t ELSE AddQR(t, <<a \div d, a % d>>, d)

\* <<q, r>> * Limb.
ShiftQR(p, d) == AddQR(<<Limb * p[1], 0>>, MulQR(p[2], Limb, d), d)

MulDivQR(a, b, d) ==
    LET p2 == MulQR(a, b \div (Limb * Limb), d)
        p1 == AddQR(ShiftQR(p2, d), MulQR(a, (b \div Limb) % Limb, d), d)
    IN  AddQR(ShiftQR(p1, d), MulQR(a, b % Limb, d), d)

\* (a as u128).checked_mul(b as u128) then checked_div(d): the product of two
\* u64 always fits u128, so the only None is the division by zero.
WideMulDiv(a, b, d) == IF d = 0 THEN None ELSE MulDivQR(a, b, d)[1]

\* Variant: the output rounded down, floor(base_reserve * quote_in / after).
calculate_buy_base_amount_floor(quote_amount_in, quote_reserve, base_reserve) ==
    IF quote_amount_in = 0 \/ base_reserve = 0 \/ quote_reserve = 0 THEN 0
    ELSE LET quote_reserve_after ==
                 UnwrapOr(CheckedAdd(quote_reserve, quote_amount_in),
                          quote_reserve)
         IN  UnwrapOr(WideMulDiv(base_reserve, quote_amount_in,
                                 quote_reserve_after), 0)

\* calculate_buy_base_amount (pump_swap.rs 413-435)
calculate_buy_base_amount(quote_amount_in, quote_reserve, base_reserve) ==
    IF quote_amount_in = 0 \/ base_reserve = 0 \/ quote_reserve = 0 THEN 0
    ELSE LET quote_reserve_after ==
                 UnwrapOr(CheckedAdd(quote_reserve, quote_amount_in),
                          quote_reserve)
             denominator == quote_reserve_after
         IN  IF denominator = 0 THEN 0
             ELSE LET base_reserve_after ==
                          UnwrapOr(WideMulDiv(quote_reserve, base_reserve,
                                              denominator), 0)
                  IN  UnwrapOr(CheckedSub(base_reserve,
                                   base_reserve_after % (U64_MAX + 1)), 0)

\* Variant: the reserves of the sell quote in swapped roles.
calculate_sell_quote_amount_swapped(base_amount_in, base_reserve, quote_reserve) ==
    IF base_amount_in = 0 \/ base_reserve = 0 \/ quote_reserve = 0 THEN 0
    ELSE LET quote_reserve_after ==
                 UnwrapOr(CheckedAdd(quote_reserve, base_amount_in),
                          quote_reserve)
             denominator == quote_reserve_after
         IN  IF denominator = 0 THEN 0
             ELSE LET base_reserve_after ==
                          UnwrapOr(WideMulDiv(quote_reserve, base_reserve,
                                              denominator), 0)
                  IN  UnwrapOr(CheckedSub(base_reserve,
                                   base_reserve_after % (U64_MAX + 1)), 0)

\* calculate_sell_quote_amount (pump_swap.rs 438-460)
calculate_sell_quote_amount(base_amount_in, base_reserve, quote_reserve) ==
    IF base_amount_in = 0 \/ base_reserve = 0 \/ quote_reserve = 0 THEN 0
    ELSE LET base_reserve_after ==
                 UnwrapOr(CheckedAdd(base_reserve, base_amount_in),
                          base_reserve)
             denominator == base_reserve_after
         IN  IF denominator = 0 THEN 0
             ELSE LET quote_reserve_after ==
                          UnwrapOr(WideMulDiv(quote_reserve, base_reserve,
                                              denominator), 0)
                  IN  UnwrapOr(CheckedSub(quote_reserve,
                                   quote_reserve_after % (U64_MAX + 1)), 0)

\* Variant: a failed multiplication falls back to 0.
min_amount_with_slippage_zero(input_amount, slippage_bps) ==
    UnwrapOr(CheckedDiv(
        UnwrapOr(CheckedMul(input_amount,
                     UnwrapOr(CheckedSub(TEN_THOUSAND, slippage_bps),
                              TEN_THOUSAND)),
                 0),
        TEN_THOUSAND), input_amount)

\* min_amount_with_slippage (pump_swap.rs 463-469)
min_amount_with_slippage(input_amount, slippage_bps) ==
    UnwrapOr(CheckedDiv(
        UnwrapOr(CheckedMul(input_amount,
                     UnwrapOr(CheckedSub(TEN_THOUSAND, slippage_bps),
                              TEN_THOUSAND)),
                 input_amount),
        TEN_THOUSAND), input_amount)

\* Variant: the tolerance subtracted instead of added.
max_amount_with_slippage_sub(input_amount, slippage_bps) ==
    UnwrapOr(CheckedDiv(
        UnwrapOr(CheckedMul(input_amount,
                     UnwrapOr(CheckedSub(TEN_THOUSAND, slippage_bps),
                              TEN_THOUSAND)),
                 input_amount),
        TEN_THOUSAND), input_amount)

\* max_amount_with_slippage (pump_swap.rs 472-478)
max_amount_with_slippage(input_amount, slippage_bps) ==
    UnwrapOr(CheckedDiv(
        UnwrapOr(CheckedMul(input_amount,
                     UnwrapOr(CheckedAdd(slippage_bps, TEN_THOUSAND),
                              TEN_THOUSAND)),
                 input_amount),
        TEN_THOUSAND), input_amount)

\* Sampled inputs: small amounts, the amounts of the documented scenarios
\* and the top of the word.
Amounts == (0..MaxSmall) \cup {1000, 10000, 100000, 500000, 1000000,
                               U64_MAX - 1, U64_MAX}
SlippageBps == {0, 1, 50, 100, 5000, 9999, 10000, 10001,
                U64_MAX - 10000, U64_MAX - 9999, U64_MAX}
\* swap_config.slippage (percent); slippage * 100 stays inside the word.
Slippages == {0, 1, 50, 100}

\* get_token_account_balance outcomes other than Ok(Some(amount)).
FetchErr == -1
FetchNoUiAmount == -2
Fetches == Amounts \cup {FetchErr, FetchNoUiAmount}

\* get_pool_info (pump_swap.rs 378-397): a failed or empty balance is 0.
pool_balance(f) == IF f = FetchErr \/ f = FetchNoUiAmount THEN 0 ELSE f

\* Variant: the two amounts of the buy tuple in swapped order.
buy_amounts_swapped(amount_specified, slippage_bps, quote_reserve, base_reserve) ==
    LET base_amount_out ==
            calculate_buy_base_amount(amount_specified, quote_reserve,
                                      base_reserve)
        max_quote_amount_in ==
            max_amount_with_slippage(amount_specified, slippage_bps)
    IN  IF base_amount_out > base_reserve
          THEN [ok |-> FALSE, base_amount |-> 0, quote_amount |-> 0]
          ELSE [ok |-> TRUE, base_amount |-> max_quote_amount_in,
                quote_amount |-> base_amount_out]

\* SwapDirection::Buy arm of build_swap_ixn_by_mint (pump_swap.rs 239-264).
buy_amounts(amount_specified, slippage_bps, quote_reserve, base_reserve) ==
    LET base_amount_out ==
            calculate_buy_base_amount(amount_specified, quote_reserve,
                                      base_reserve)
        max_quote_amount_in ==
            max_amount_with_slippage(amount_specified, slippage_bps)
    IN  IF base_amount_out > base_reserve
          THEN [ok |-> FALSE, base_amount |-> 0, quote_amount |-> 0]
          ELSE [ok |-> TRUE, base_amount |-> base_amount_out,
                quote_amount |-> max_quote_amount_in]

\* build_swap_ixn_by_mint for a buy (pump_swap.rs 72-330): the result, with
\* the arguments of the swap instruction when one is built.
build_swap_ixn_buy(amount_specified, slippage, fq, fb, out_ata_exists, expired) ==
    LET slippage_bps == slippage * 100
        base_reserve == pool_balance(fb)
        quote_reserve == pool_balance(fq)
        amounts == buy_amounts(amount_specified, slippage_bps, quote_reserve,
                               base_reserve)
        instructions ==
            (IF out_ata_exists THEN <<>> ELSE <<"create">>)
            \o (IF amount_specified > 0 THEN <<"swap">> ELSE <<>>)
        err == IF ~amounts.ok THEN "exceeds reserves"
               ELSE IF instructions = <<>> THEN "instructions empty"
               ELSE IF expired THEN "expired"
               ELSE "none"
    IN  [op |-> "build_buy", amount_specified |-> amount_specified,
         slippage_bps |-> slippage_bps, quote_reserve |-> quote_reserve,
         base_reserve |-> base_reserve, ok |-> err = "none", err |-> err,
         instructions |-> IF err = "none" THEN instructions ELSE <<>>,
         base_amount |-> amounts.base_amount,
         quote_amount |-> amounts.quote_amount]

\* slippage: 100_u64 of the forced sell's SwapConfig (monitor.rs 1669)
FORCED_SELL_SLIPPAGE == 100

\* Variant: the percent taken as tenths of a percent.
slippage_to_bps_tenth(slippage) == slippage * 10
\* let slippage_bps = swap_config.slippage * 100 (pump_swap.rs 80)
slippage_to_bps(slippage) == slippage * 100

\* build_swap_ixn_by_mint for a sell of SwapInType::Pct with amount_in 1.0
\* (pump_swap.rs 72-330): the whole balance of the input token account is
\* sold; the result, with the arguments of the swap instruction.
build_swap_ixn_sell(balance, slippage, fq, fb, in_ata_exists) ==
    LET slippage_bps == slippage_to_bps(slippage)
        base_reserve == pool_balance(fb)
        quote_reserve == pool_balance(fq)
        base_amount_in == balance
        quote_amount_out ==
            calculate_sell_quote_amount(base_amount_in, base_reserve,
                                        quote_reserve)
        min_quote_amount_out ==
            min_amount_with_slippage(quote_amount_out, slippage_bps)
        err == IF ~in_ata_exists THEN "no token account"
               ELSE IF balance = 0 THEN "amount is zero"
               ELSE "none"
    IN  [op |-> "build_sell", amount_specified |-> balance,
         slippage_bps |-> slippage_bps, quote_reserve |-> quote_reserve,
         base_reserve |-> base_reserve, ok |-> err = "none", err |-> err,
         instructions |-> IF err = "none" THEN <<"swap", "close">> ELSE <<>>,
         quote_amount_out |-> IF err = "none" THEN quote_amount_out ELSE 0,
         base_amount |-> IF err = "none" THEN base_amount_in ELSE 0,
         quote_amount |-> IF err = "none" THEN min_quote_amount_out ELSE 0]

AmmIdle == [op |-> "idle"]

\* ------------------------------------------------ arbitrage detection
\* arbitrage_monitor (monitor.rs 2197-2686).  Prices are f64 in the source;
\* here a price is a positive number of ten-thousandths (10300 is 1.03) and
\* a percentage a number of hundredths of a percent (200 is 2.0%), compared
\* exactly.  The rounding of f64 is not modelled: the one sampled pair that
\* meets a sampled threshold exactly (1.0625 against 1.0, 6.25%) is exact
\* in f64 too.  The price table is kept for one token (the loops of the
\* sweep never relate two tokens).
Dexes == {"pumpswap", "raydium_amm", "whirlpool"}
mock_token_mint == "TokenMintAddress"
Tokens == {mock_token_mint, "OtherMint"}
PriceSamples == {10000, 10300, 10625}
LiquiditySamples == {5000000, 15000000, 20000000}
Thresholds == {0, 200, 295, 625}
MinLiquidities == {0, 10000000}

NoPrices == [d \in {} |-> 0]
ArbIdle == [op |-> "idle"]

\* dex_prices.insert(dex, (price, liquidity))
InsertPrice(prices, dex, price, liquidity) ==
    [d \in DOMAIN prices \cup {dex} |->
        IF d = dex THEN [price |-> price, liquidity |-> liquidity]
        ELSE prices[d]]

\* The iteration orders of a HashMap with these keys.
Orders(keys) ==
    {f \in [1..Cardinality(keys) -> keys] :
        \A i, j \in DOMAIN f : i # j => f[i] # f[j]}

\* Variant: a difference equal to the threshold qualifies.
ExceedsOrEqualsThreshold(price1, price2, threshold) ==
    Abs(price1 - price2) * 10000 >= threshold * price2
\* price_diff_pct = |price1 - price2| / price2 * 100, against the threshold.
ExceedsThreshold(price1, price2, threshold) ==
    Abs(price1 - price2) * 10000 > threshold * price2

\* The pool id the lookup loop ends with: the last pool of that DEX.
PoolIdOf(c, token, dex) ==
    IF token \notin DOMAIN c THEN "unknown"
    ELSE LET hits == {i \in DOMAIN c[token] : c[token][i].dex_name = dex}
         IN  IF hits = {} THEN "unknown"
             ELSE c[token][CHOOSE i \in hits : \A k \in hits : k <= i].pool_id

\* Variant: the first venue of the pair is always the buy side.
OpportunityFirstBuys(dex1, q1, dex2, q2, c) ==
    [buy_dex |-> dex1, buy_price |-> q1.price,
     buy_pool |-> PoolIdOf(c, mock_token_mint, dex1),
     sell_dex |-> dex2, sell_price |-> q2.price,
     sell_pool |-> PoolIdOf(c, mock_token_mint, dex2),
     expected_profit_pct |->
         ((q2.price - q1.price) * 10000) \div q1.price]

\* The opportunity pushed for a qualifying pair (monitor.rs 2485-2519).
Opportunity(dex1, q1, dex2, q2, c) ==
    LET first == q1.price < q2.price
        buy_dex    == IF first THEN dex1 ELSE dex2
        buy_price  == IF first THEN q1.price ELSE q2.price
        sell_dex   == IF first THEN dex2 ELSE dex1
        sell_price == IF first THEN q2.price ELSE q1.price
    IN  [buy_dex |-> buy_dex, buy_price |-> buy_price,
         buy_pool |-> PoolIdOf(c, mock_token_mint, buy_dex),
         sell_dex |-> sell_dex, sell_price |-> sell_price,
         sell_pool |-> PoolIdOf(c, mock_token_mint, sell_dex),
         expected_profit_pct |->
             ((sell_price - buy_price) * 10000) \div buy_price]

\* The pairs (i, j), i < j, of 1..n in the order of the two nested loops.
PairSeq(n) ==
    LET pairs == {pr \in (1..n) \X (1..n) : pr[1] < pr[2]}
        Rank(pr) == Cardinality({q \in pairs :
                        q[1] < pr[1] \/ (q[1] = pr[1] /\ q[2] <= pr[2])})
    IN  [k \in 1..Cardinality(pairs) |->
            CHOOSE pr \in pairs : Rank(pr) = k]

\* arb_opportunities of one sweep over prices iterated in the given order
\* (monitor.rs 2463-2523).
Opportunities(prices, order, c, threshold, liquidity) ==
    IF Len(order) < 2 THEN <<>>
    ELSE LET Q(k) == prices[order[k]]
             Hit(pr) ==
                 /\ ExceedsThreshold(Q(pr[1]).price, Q(pr[2]).price, threshold)
                 /\ Q(pr[1]).liquidity >= liquidity
                 /\ Q(pr[2]).liquidity >= liquidity
             hits == SelectSeq(PairSeq(Len(order)), Hit)
         IN  [k \in DOMAIN hits |->
                 Opportunity(order[hits[k][1]], Q(hits[k][1]),
                             order[hits[k][2]], Q(hits[k][2]), c)]

\* ------------------------------------------------------- pool cache
\* src/src/application/pool_discovery.rs.  A PoolCache is a map from token
\* mint to a list of PoolInfo; base_mint, quote_mint and the two
\* last_updated timestamps are not carried (no modelled branch reads them
\* and they serialize as they are).
PoolIds == {"P1", "P2"}
DexOfPool(id) == IF id = "P1" THEN "pumpswap" ELSE "raydium_amm"
\* f64::INFINITY as a price (quote_reserve / base_reserve with no base).
PriceInfinity == -2
CachePrices == {10300, PriceInfinity}

\* Option fields use None.
PoolInfo(id, price, liquidity) ==
    [pool_id |-> id, dex_name |-> DexOfPool(id),
     last_known_price |-> price, liquidity |-> liquidity]
\* The PoolInfo values passed to add_pool: as discovered, or with a price.
PoolInfos ==
    {PoolInfo(id, None, None) : id \in PoolIds}
    \cup {PoolInfo(id, pr, 15000000) : id \in PoolIds, pr \in CachePrices}

EmptyCache == [t \in {} |-> <<>>]
PoolsOf(c, token) == IF token \in DOMAIN c THEN c[token] ELSE <<>>
WithPools(c, token, list) ==
    [t \in DOMAIN c \cup {token} |-> IF t = token THEN list ELSE c[t]]

\* Index of the first pool with that pool_id, 0 if there is none.
FirstWithId(list, id) ==
    LET hits == {i \in DOMAIN list : list[i].pool_id = id}
    IN  IF hits = {} THEN 0 ELSE CHOOSE i \in hits : \A k \in hits : i <= k

\* Variant: the pool is pushed whether or not its pool_id is present.
add_pool_push(c, token_mint, pool_info) ==
    WithPools(c, token_mint, Append(PoolsOf(c, token_mint), pool_info))

\* PoolCache::add_pool (pool_discovery.rs 64-84)
add_pool(c, token_mint, pool_info) ==
    LET list == PoolsOf(c, token_mint)
        i == FirstWithId(list, pool_info.pool_id)
    IN  WithPools(c, token_mint,
            IF i # 0 THEN [list EXCEPT ![i] = pool_info]
            ELSE Append(list, pool_info))

\* The mutation of PoolCacheManager::update_pool_price (128-140).
update_price(c, token_mint, pool_id, price, liquidity) ==
    IF token_mint \notin DOMAIN c THEN c
    ELSE LET list == c[token_mint]
             i == FirstWithId(list, pool_id)
         IN  IF i = 0 THEN c
             ELSE WithPools(c, token_mint,
                      [list EXCEPT ![i].last_known_price = price,
                                   ![i].liquidity = liquidity])

\* serde_json of an Option<f64>: a number that is not finite is written as
\* null, and null is read back as None.
JsonPrice(price) == IF price = PriceInfinity THEN None ELSE price
\* What serde_json::from_str reads back from to_string_pretty(c).
JsonRoundTrip(c) ==
    [t \in DOMAIN c |->
        [i \in DOMAIN c[t] |->
            [c[t][i] EXCEPT !.last_known_price = JsonPrice(@)]]]

\* Content of the cache file: absent, not readable as a cache, or a cache.
FileAbsent == [kind |-> "absent"]
FileCorrupt == [kind |-> "corrupt"]
FileOf(c) == [kind |-> "json", cache |-> JsonRoundTrip(c)]

\* Variant: a file that cannot be read loads as an empty cache.
load_lenient(file) ==
    IF file.kind = "json" THEN [ok |-> TRUE, cache |-> file.cache]
    ELSE [ok |-> TRUE, cache |-> EmptyCache]

\* PoolCache::load (pool_discovery.rs 45-53)
load(file) ==
    IF file.kind = "absent" THEN [ok |-> TRUE, cache |-> EmptyCache]
    ELSE IF file.kind = "corrupt" THEN [ok |-> FALSE, cache |-> EmptyCache]
    ELSE [ok |-> TRUE, cache |-> file.cache]

\* Variant: a failed save restores the cache as it was before the call.
after_save_rollback(before, after, file, outcome) ==
    IF outcome = "ok" THEN [ok |-> TRUE, cache |-> after, file |-> FileOf(after)]
    ELSE IF outcome = "create_err"
      THEN [ok |-> FALSE, cache |-> before, file |-> file]
    ELSE [ok |-> FALSE, cache |-> before, file |-> FileCorrupt]

\* cache.save(&self.file_path)? after a mutation (pool_discovery.rs 56-61,
\* 122-124, 142-143): File::create may fail (file untouched) and write_all
\* may fail (file truncated); the guard then drops with the mutation kept.
after_save(before, after, file, outcome) ==
    IF outcome = "ok" THEN [ok |-> TRUE, cache |-> after, file |-> FileOf(after)]
    ELSE IF outcome = "create_err"
      THEN [ok |-> FALSE, cache |-> after, file |-> file]
    ELSE [ok |-> FALSE, cache |-> after, file |-> FileCorrupt]
SaveOutcomes == {"ok", "create_err", "write_err"}

NoCall == [op |-> "none"]

\* -------------------------------------------------- stream front end
\* The marker strings from_json looks for in a log line.  Their text lives
\* in common::config; a line is modelled by the one marker it contains, or
\* none ("plain").
Markers == {"buy_instruction", "buy_program_data", "sell_instruction",
            "sell_program_data", "pump_program", "BuyEvent", "SellEvent",
            "ArbitrageEvent"}
LogLines == Markers \cup {"plain"}
Logs == UNION {[1..n -> LogLines] : n \in 0..MaxLogLines}
Contains(logs, marker) == \E i \in DOMAIN logs : logs[i] = marker
HasMarker(logs) == \E m \in Markers : Contains(logs, m)

\* The fallback scan over all lines at a line naming the PumpSwap program
\* (monitor.rs 251-265): the first event line decides, else the type stays.
RECURSIVE FallbackScan(_, _, _)
FallbackScan(logs, k, current) ==
    IF k > Len(logs) THEN current
    ELSE IF logs[k] = "BuyEvent" THEN "SwapBuy"
    ELSE IF logs[k] = "SellEvent" THEN "SwapSell"
    ELSE IF logs[k] = "ArbitrageEvent" THEN "ArbitrageSwap"
    ELSE FallbackScan(logs, k + 1, current)

\* let mut instruction_type = InstructionType::SwapBuy (monitor.rs 223)
InitialInstructionType == "SwapBuy"

\* The detection loop (monitor.rs 238-273) from line i on.
RECURSIVE DetectFrom(_, _, _)
DetectFrom(logs, i, current) ==
    IF i > Len(logs) THEN current
    ELSE IF logs[i] = "buy_instruction"
              /\ Contains(logs, "buy_program_data") THEN "SwapBuy"
    ELSE IF logs[i] = "sell_instruction"
              /\ Contains(logs, "sell_program_data") THEN "SwapSell"
    ELSE IF logs[i] = "pump_program"
      THEN LET found == FallbackScan(logs, 1, current)
           IN  IF found \in InstructionType THEN found
               ELSE DetectFrom(logs, i + 1, found)
    ELSE DetectFrom(logs, i + 1, current)

\* What the update carries: no transaction envelope, an envelope without
\* meta, one with meta but no message, or all of them.
TxnShapes == {"no_transaction", "no_meta", "no_message", "full"}

\* TradeInfoFromToken::from_json (monitor.rs 209-594): the instruction type
\* of the event it returns, or the error.  The helper extractions always
\* return Ok (monitor.rs 597-733).
from_json(shape, logs) ==
    LET instruction_type == DetectFrom(logs, 1, InitialInstructionType)
    IN  IF instruction_type \notin InstructionType
          THEN "Err: Failed to parse transaction"
        ELSE IF shape = "no_transaction" THEN "Err: Transaction is None"
        ELSE IF shape = "no_message"
          THEN "Err: Failed to get recent blockhash"
        ELSE instruction_type

\* Variant: a Pong is answered as well.
RepliesToPong(kind) == kind \in {"ping", "pong"}
\* process_stream_message (monitor.rs 769-785): the updates it answers.
RepliesTo(kind) == kind = "ping"

\* Variant: a failed reply ends the event loop.
AfterReplyBreak(ok) == IF ok THEN "recv" ELSE "stopped"
\* The loop after process_stream_message (monitor.rs 1945-1948): an error
\* is logged and the loop continues; a Ping is no transaction.
AfterReply(ok) == "recv"

\* Variant: the keepalive task goes on after a failed send.
AfterHeartbeatRetry(ok) == "wait"
\* The keepalive task after send_heartbeat_ping (monitor.rs 1567-1570):
\* a failed send is logged and the task breaks.
AfterHeartbeat(ok) == IF ok THEN "wait" ELSE "stopped"

\* The update being handled: its kind, whether the reply to it is pending,
\* the replies sent for it and their outcome, and for a transaction whether
\* its logs hold a marker and what from_json returned.
Message(kind, pc, replies, reply, marked, result) ==
    [kind |-> kind, pc |-> pc, replies |-> replies, reply |-> reply,
     marked |-> marked, result |-> result]
NoMessage == Message("none", "done", 0, "none", FALSE, "none")
KeepaliveStart == [pc |-> "wait", last |-> "none"]

\* ------------------------------------------------ subscription setup
\* const MAX_RETRIES: u32 = 3 (monitor.rs 1428, 2330)
MAX_RETRIES == 3
\* time::sleep(Duration::from_secs(5)) between attempts (monitor.rs 1440)
RETRY_DELAY_SECS == 5

\* Variant: the retry budget is tested with > instead of >=.
AfterSubscribeErrLate(retry_count) ==
    IF retry_count > MAX_RETRIES THEN "failed" ELSE "sleep"
\* Err arm of client.subscribe() with the incremented retry_count
\* (monitor.rs 1432-1441): return Err, or log and sleep.
AfterSubscribeErr(retry_count) ==
    IF retry_count >= MAX_RETRIES THEN "failed" ELSE "sleep"

\* The setup: position, retry_count, subscribe calls made, seconds slept.
Setup(pc, retry_count, attempts, slept) ==
    [pc |-> pc, retry_count |-> retry_count, attempts |-> attempts,
     slept |-> slept]
\* Subscribed at the first attempt.
Subscribed == Setup("monitoring", 0, 1, 0)

\* ------------------------------------------------------ lock discipline
\* The mutexes of monitor.rs that tasks share: existing_liquidity_pools
\* (ledger), BUYING_ENABLED, TOKEN_TRACKING, token_prices, the cache of
\* PoolCacheManager (all std::sync::Mutex) and subscribe_tx
\* (tokio::sync::Mutex around the subscription sink).
Locks == {"ledger", "buying_enabled", "tracking", "token_prices", "cache",
          "sink"}
StdLocks == Locks \ {"sink"}

\* One step of a task: lock / unlock of a std mutex, lock_await (the
\* .lock().await of the tokio mutex), await (any other suspension point),
\* spawn (tokio::spawn of the named task), idle (not spawned), end.
Step(op, arg, next) == [op |-> op, arg |-> arg, next |-> next]

\* Event loop of copy_trader_pumpfun: stream.next().await, the ping reply
\* of handle_ping_message, the duplicate check, the two BUYING_ENABLED
\* scopes and the spawn of the buy task.
EventLoopProgram ==
    [recv        |-> Step("await", "stream.next",
                          {"recv", "ping_lock", "dup_lock", "stopped"}),
     ping_lock   |-> Step("lock_await", "sink", {"ping_send"}),
     ping_send   |-> Step("await", "send", {"ping_unlock"}),
     ping_unlock |-> Step("unlock", "sink", {"recv"}),
     dup_lock    |-> Step("lock", "ledger", {"dup_unlock"}),
     dup_unlock  |-> Step("unlock", "ledger", {"recv", "flag_lock"}),
     flag_lock   |-> Step("lock", "buying_enabled", {"flag_unlock"}),
     flag_unlock |-> Step("unlock", "buying_enabled", {"recv", "set_lock"}),
     set_lock    |-> Step("lock", "buying_enabled", {"set_unlock"}),
     set_unlock  |-> Step("unlock", "buying_enabled", {"spawn_buy"}),
     spawn_buy   |-> Step("spawn", "buy", {"recv"}),
     stopped     |-> Step("end", "", {})]

\* Keepalive task: interval.tick().await, then send_heartbeat_ping, whose
\* guard locked_tx lives until the function returns.
KeepaliveProgram ==
    [tick    |-> Step("await", "interval.tick", {"lock"}),
     lock    |-> Step("lock_await", "sink", {"send"}),
     send    |-> Step("await", "send", {"unlock"}),
     unlock  |-> Step("unlock", "sink", {"tick", "stopped"}),
     stopped |-> Step("end", "", {})]

\* Sweep task: sleep, the scan of the ledger in its own scope, the
\* BUYING_ENABLED scope, then one spawn per timed-out mint.
SweepProgram ==
    [sleep       |-> Step("await", "sleep", {"scan_lock"}),
     scan_lock   |-> Step("lock", "ledger", {"scan_unlock"}),
     scan_unlock |-> Step("unlock", "ledger", {"flag_lock"}),
     flag_lock   |-> Step("lock", "buying_enabled", {"flag_unlock"}),
     flag_unlock |-> Step("unlock", "buying_enabled", {"sleep", "spawn_sell"}),
     spawn_sell  |-> Step("spawn", "forced_sell", {"sleep"})]

\* Variant: the existing_pool guard is still alive at the first await.
ForcedSellProgramHoldsLedger ==
    [idle          |-> Step("idle", "", {"pool_lock"}),
     pool_lock     |-> Step("lock", "ledger", {"build"}),
     build         |-> Step("await", "build_swap_ixn_by_mint", {"pool_unlock"}),
     pool_unlock   |-> Step("unlock", "ledger", {"blockhash", "idle"}),
     blockhash     |-> Step("await", "get_latest_blockhash", {"send", "idle"}),
     send          |-> Step("await", "new_signed_and_send_zeroslot",
                            {"sold_lock", "idle"}),
     sold_lock     |-> Step("lock", "ledger", {"sold_unlock"}),
     sold_unlock   |-> Step("unlock", "ledger", {"check_lock"}),
     check_lock    |-> Step("lock", "ledger", {"check_unlock"}),
     check_unlock  |-> Step("unlock", "ledger", {"enable_lock", "idle"}),
     enable_lock   |-> Step("lock", "buying_enabled", {"enable_unlock"}),
     enable_unlock |-> Step("unlock", "buying_enabled", {"idle"})]
\* Variant: the all_sold guard is still alive when BUYING_ENABLED is locked.
ForcedSellProgramNested ==
    [idle          |-> Step("idle", "", {"pool_lock"}),
     pool_lock     |-> Step("lock", "ledger", {"pool_unlock"}),
     pool_unlock   |-> Step("unlock", "ledger", {"build"}),
     build         |-> Step("await", "build_swap_ixn_by_mint",
                            {"blockhash", "idle"}),
     blockhash     |-> Step("await", "get_latest_blockhash", {"send", "idle"}),
     send          |-> Step("await", "new_signed_and_send_zeroslot",
                            {"sold_lock", "idle"}),
     sold_lock     |-> Step("lock", "ledger", {"sold_unlock"}),
     sold_unlock   |-> Step("unlock", "ledger", {"check_lock"}),
     check_lock    |-> Step("lock", "ledger", {"enable_lock"}),
     enable_lock   |-> Step("lock", "buying_enabled", {"enable_unlock"}),
     enable_unlock |-> Step("unlock", "buying_enabled", {"check_unlock"}),
     check_unlock  |-> Step("unlock", "ledger", {"idle"})]
\* Forced-sell task: the existing_pool scope, the three awaits (each Err
\* arm ends the task), the Sold write, the all_sold scope and, if all are
\* sold, the BUYING_ENABLED guard.
ForcedSellProgram ==
    [idle          |-> Step("idle", "", {"pool_lock"}),
     pool_lock     |-> Step("lock", "ledger", {"pool_unlock"}),
     pool_unlock   |-> Step("unlock", "ledger", {"build"}),
     build         |-> Step("await", "build_swap_ixn_by_mint",
                            {"blockhash", "idle"}),
     blockhash     |-> Step("await", "get_latest_blockhash", {"send", "idle"}),
     send          |-> Step("await", "new_signed_and_send_zeroslot",
                            {"sold_lock", "idle"}),
     sold_lock     |-> Step("lock", "ledger", {"sold_unlock"}),
     sold_unlock   |-> Step("unlock", "ledger", {"check_lock"}),
     check_lock    |-> Step("lock", "ledger", {"check_unlock"}),
     check_unlock  |-> Step("unlock", "ledger", {"enable_lock", "idle"}),
     enable_lock   |-> Step("lock", "buying_enabled", {"enable_unlock"}),
     enable_unlock |-> Step("unlock", "buying_enabled", {"idle"})]

\* Buy task: the two awaits, the Bought write, and the failure arms, where
\* the BUYING_ENABLED guard lives to the end of the arm, over the ledger
\* scope.
BuyProgram ==
    [idle        |-> Step("idle", "", {"build"}),
     build       |-> Step("await", "build_swap_ixn_by_mint",
                          {"send", "fail_flag"}),
     send        |-> Step("await", "new_signed_and_send_zeroslot",
                          {"ok_lock", "fail_flag"}),
     ok_lock     |-> Step("lock", "ledger", {"ok_unlock"}),
     ok_unlock   |-> Step("unlock", "ledger", {"idle"}),
     fail_flag   |-> Step("lock", "buying_enabled", {"fail_lock"}),
     fail_lock   |-> Step("lock", "ledger", {"fail_unlock"}),
     fail_unlock |-> Step("unlock", "ledger", {"fail_enable"}),
     fail_enable |-> Step("unlock", "buying_enabled", {"idle"})]

\* Price-monitor task: tick, the ledger scope that collects the Bought
\* entries, one spawn per entry.
PriceMonitorProgram ==
    [tick         |-> Step("await", "interval.tick", {"pools_lock"}),
     pools_lock   |-> Step("lock", "ledger", {"pools_unlock"}),
     pools_unlock |-> Step("unlock", "ledger", {"tick", "spawn_price"}),
     spawn_price  |-> Step("spawn", "price", {"tick"})]

\* Price task of one entry: get_token_price().await, then four scopes of
\* TOKEN_TRACKING (entry, peak, last_price_check, price_change_rate).
PriceProgram ==
    [idle         |-> Step("idle", "", {"price"}),
     price        |-> Step("await", "get_token_price", {"entry_lock", "idle"}),
     entry_lock   |-> Step("lock", "tracking", {"entry_unlock"}),
     entry_unlock |-> Step("unlock", "tracking", {"peak_lock", "check_lock"}),
     peak_lock    |-> Step("lock", "tracking", {"peak_unlock"}),
     peak_unlock  |-> Step("unlock", "tracking", {"check_lock"}),
     check_lock   |-> Step("lock", "tracking", {"check_unlock"}),
     check_unlock |-> Step("unlock", "tracking", {"rate_lock"}),
     rate_lock    |-> Step("lock", "tracking", {"rate_unlock"}),
     rate_unlock  |-> Step("unlock", "tracking", {"idle"})]

\* Event loop of arbitrage_monitor: the ping reply, and one token_prices
\* scope per instruction of a DEX program.
ArbitrageLoopProgram ==
    [recv          |-> Step("await", "stream.next",
                            {"recv", "ping_lock", "prices_lock", "stopped"}),
     ping_lock     |-> Step("lock_await", "sink", {"ping_send"}),
     ping_send     |-> Step("await", "send", {"ping_unlock"}),
     ping_unlock   |-> Step("unlock", "sink", {"recv"}),
     prices_lock   |-> Step("lock", "token_prices", {"prices_unlock"}),
     prices_unlock |-> Step("unlock", "token_prices", {"recv", "prices_lock"}),
     stopped       |-> Step("end", "", {})]

\* Sweep of arbitrage_monitor: tick, the token_prices scope with
\* get_cache (PoolCacheManager's lock) inside it.
ArbitrageSweepProgram ==
    [tick          |-> Step("await", "interval.tick", {"prices_lock"}),
     prices_lock   |-> Step("lock", "token_prices", {"cache_lock"}),
     cache_lock    |-> Step("lock", "cache", {"cache_unlock"}),
     cache_unlock  |-> Step("unlock", "cache", {"prices_unlock"}),
     prices_unlock |-> Step("unlock", "token_prices", {"tick"})]

CopyTraderTasks == {"event_loop", "keepalive", "sweep", "forced_sell", "buy",
                    "price_monitor", "price"}
ArbitrageTasks == {"arbitrage_loop", "arbitrage_keepalive", "arbitrage_sweep"}
Tasks == CopyTraderTasks \cup ArbitrageTasks

Program(t) ==
    CASE t = "event_loop" -> EventLoopProgram
      [] t \in {"keepalive", "arbitrage_keepalive"} -> KeepaliveProgram
      [] t = "sweep" -> SweepProgram
      [] t = "forced_sell" -> ForcedSellProgram
      [] t = "buy" -> BuyProgram
      [] t = "price_monitor" -> PriceMonitorProgram
      [] t = "price" -> PriceProgram
      [] t = "arbitrage_loop" -> ArbitrageLoopProgram
      [] t = "arbitrage_sweep" -> ArbitrageSweepProgram

\* Where each task of a monitor is once its tasks are spawned; "off" for the
\* tasks of the other monitor.
StartOf(t) ==
    CASE t \in {"event_loop", "arbitrage_loop"} -> "recv"
      [] t \in {"keepalive", "arbitrage_keepalive", "price_monitor",
                "arbitrage_sweep"} -> "tick"
      [] t = "sweep" -> "sleep"
      [] t \in {"forced_sell", "buy", "price"} -> "idle"
MonitorStart(running) ==
    [t \in Tasks |-> IF t \in running THEN StartOf(t) ELSE "off"]
NoTasks == MonitorStart({})
\* No task holds the mutex.
Unlocked == "unlocked"
AllFree == [l \in Locks |-> Unlocked]

\* ------------------------------------------------------- price tracking
\* TOKEN_TRACKING and the price tasks of the price monitor.
\* if info.price_history.len() > 100 (monitor.rs 1876, 1902)
HISTORY_LIMIT == 100
\* Concurrent price tasks, and price tasks spawned in all.
MaxPriceTasks == 2
MaxFetches == 3

\* Prices get_token_price returns, and the buy_price of each entry's pool.
TrackPrices == {80, 100, 125}
BoughtAt(m) == IF m = 1 THEN 100 ELSE 50

\* pnl of the price task: ((current_price - buy_price) / buy_price) * 100,
\* 0.0 for a buy_price of 0 (exact for the sampled prices).
pnl_of(current_price, buy_price) ==
    IF buy_price > 0
      THEN ((current_price - buy_price) * 100) \div buy_price
      ELSE 0

\* Variant: the push without the trim.
push_sample_untrimmed(price_history, sample) ==
    Append(price_history, sample)
\* price_history.push(sample); if len() > 100 { remove(0) }
push_sample(price_history, sample) ==
    IF Len(Append(price_history, sample)) > HISTORY_LIMIT
      THEN Tail(Append(price_history, sample))
      ELSE Append(price_history, sample)

TrackingInfo(top_pnl, last_price_check, price_history) ==
    [present |-> TRUE, top_pnl |-> top_pnl,
     last_price_check |-> last_price_check, price_history |-> price_history]
\* No entry for the mint.
Untracked ==
    [present |-> FALSE, top_pnl |-> 0, last_price_check |-> 0,
     price_history |-> <<>>]
\* An entry after n price tasks that each saw price 100 for a pool bought at
\* 100: top_pnl 0 and one sample per task.
TrackedFor(n) ==
    TrackingInfo(0, n, [i \in 1..n |-> <<100, i>>])

PriceTask(pc, mint, current_price, pnl, top_pnl) ==
    [pc |-> pc, mint |-> mint, current_price |-> current_price, pnl |-> pnl,
     top_pnl |-> top_pnl]
NoPriceTask == PriceTask("idle", NoMint, 0, 0, 0)

\* ------------------------------------------------ classification inputs
\* Log lists given to from_json on their own, up to MaxClassifyLines lines.
MaxClassifyLines == 3
ClassifyLogs == UNION {[1..n -> LogLines] : n \in 0..MaxClassifyLines}
Classified(logs, result) == [logs |-> logs, result |-> result]
NotClassified == Classified(<<>>, "none")

VARIABLES
    pools,              \* existing_liquidity_pools: set of LiquidityPool
    buying_enabled,     \* BUYING_ENABLED
    flag_holder,        \* buy task holding BUYING_ENABLED in its failure arm
    now,                \* Instant::now()
    loop_pc,            \* position of the event loop
    ev,                 \* trade_info being admitted
    buyTasks,           \* bag of spawned buy tasks [mint]
    sweep_pc,           \* position of the sweep task
    has_bought_tokens,  \* sweep local
    tokens_to_sell,     \* sweep local (mints of timed_out_tokens)
    sellTasks,          \* bag of spawned forced-sell tasks [mint, pc]
    lastOp,             \* history: the step just taken
    amm,                \* last quote / slippage / builder call of PumpSwap
    arbitrage_threshold_pct,  \* parameter of arbitrage_monitor
    min_liquidity,      \* parameter of arbitrage_monitor
    token_prices,       \* token_prices of arbitrage_monitor, for one token
    arb,                \* opportunities of the sweep iteration in progress
    cache,              \* PoolCacheManager.cache (in memory)
    cache_file,         \* content of the cache file
    cache_ret,          \* the PoolCacheManager call that returned last
    stream,             \* the stream update the event loop is handling
    keepalive,          \* the keepalive task: position, last send
    sub,                \* the subscription setup of the monitor
    task_pc,            \* position of each task in its program
    holder,             \* the task holding each mutex, or Unlocked
    tracking,           \* TOKEN_TRACKING: mint -> TokenTrackingInfo
    priceTasks,         \* the spawned price tasks and their locals
    track_clock,        \* Instant::now() of the price tasks (samples taken)
    fetches,            \* price tasks spawned so far
    classified          \* the last from_json call: its logs and result

ammVars == <<amm>>
arbVars == <<arbitrage_threshold_pct, min_liquidity, token_prices, arb>>
cacheVars == <<cache, cache_file, cache_ret>>
\* Everything outside copy_trader_pumpfun.
streamVars == <<stream, keepalive>>
setupVars == <<sub>>
lockVars == <<task_pc, holder>>
trackVars == <<tracking, priceTasks, track_clock, fetches>>
classifyVars == <<classified>>
extraVars == <<setupVars, lockVars, trackVars, classifyVars>>
aux == <<ammVars, arbVars, cacheVars, streamVars, extraVars>>

vars == <<pools, buying_enabled, flag_holder, now, loop_pc, ev, buyTasks,
          sweep_pc, has_bought_tokens, tokens_to_sell, sellTasks, lastOp,
          aux>>

Op(o, m) == [op |-> o, mint |-> m]

\* History record of a Receive step: the event's mint, signer and amount.
RecvOp(o, e) == [op |-> o, mint |-> e.mint, target |-> e.target,
                 volume_change |-> e.volume_change]

Pool(m, s, ts) == [mint |-> m, status |-> s, timestamp |-> ts]

\* Variant: the insert without the preceding retain.
InsertOnly(ps, new) == ps \cup {new}

\* pools.retain(|pool| pool.mint != mint); pools.insert(new)
RetainInsert(ps, new) == {p \in ps : p.mint # new.mint} \cup {new}

AnyBought(ps) == \E p \in ps : p.status = "Bought"

BoughtEntries(ps) == {p \in ps : p.status = "Bought"}

\* Variant: the timeout comparison admits an age equal to the limit.
TimedOutAtLimit(ps, t) ==
    {p.mint : p \in
        {q \in ps : q.status = "Bought" /\ q.timestamp # None
                    /\ t - q.timestamp >= MAX_WAIT_TIME}}

\* Variant: the timeout comparison one unit late.
TimedOutLate(ps, t) ==
    {p.mint : p \in
        {q \in ps : q.status = "Bought" /\ q.timestamp # None
                    /\ t - q.timestamp > MAX_WAIT_TIME + 1}}

\* timed_out_tokens of the sweep
TimedOut(ps, t) ==
    {p.mint : p \in
        {q \in ps : q.status = "Bought" /\ q.timestamp # None
                    /\ t - q.timestamp > MAX_WAIT_TIME}}

BagAdd(b, e) == b (+) SetToBag({e})
BagRemove(b, e) == b (-) SetToBag({e})

\* copy_trader_pumpfun after its setup.
InitLedger ==
    /\ pools = {}
    /\ buying_enabled = TRUE
    /\ flag_holder = Free
    /\ now = 0
    /\ loop_pc = "recv"
    /\ ev = NoEvent
    /\ buyTasks = EmptyBag
    /\ sweep_pc = "sleep"
    /\ has_bought_tokens = FALSE
    /\ tokens_to_sell = {}
    /\ sellTasks = EmptyBag
    /\ lastOp = Op("Init", NoMint)

\* No arbitrage_monitor running: its parameters unset, no price recorded.
InitNoArb ==
    /\ arbitrage_threshold_pct = 0
    /\ min_liquidity = 0
    /\ token_prices = NoPrices
    /\ arb = ArbIdle

\* No PoolCacheManager constructed, no cache file.
InitNoCache ==
    /\ cache = EmptyCache
    /\ cache_file = FileAbsent
    /\ cache_ret = NoCall

\* The stream front end at the start: nothing received, keepalive waiting.
InitStreamVars ==
    /\ stream = NoMessage
    /\ keepalive = KeepaliveStart

\* TOKEN_TRACKING is empty and no price task runs.
InitNoTracking ==
    /\ tracking = [m \in Mints |-> Untracked]
    /\ priceTasks = [i \in 1..MaxPriceTasks |-> NoPriceTask]
    /\ track_clock = 0
    /\ fetches = 0

\* The monitor has subscribed.
InitExtra ==
    /\ sub = Subscribed
    /\ task_pc = NoTasks
    /\ holder = AllFree
    /\ InitNoTracking
    /\ classified = NotClassified

Init ==
    /\ InitLedger
    /\ amm = AmmIdle
    /\ InitNoArb
    /\ InitNoCache
    /\ InitStreamVars
    /\ InitExtra

\* ------------------------------------------------------------ event loop
\* stream.next() yields a transaction; classification succeeded with e.
\* Target filter and buy-amount limits are local checks (continue on fail).
ReceiveChecks(e) ==
    IF e.target \notin copy_trading_target_addresses
      THEN /\ lastOp' = RecvOp("SkipNotTarget", e)
           /\ UNCHANGED <<loop_pc, ev>>
    ELSE IF AmountExceedsMax(e.volume_change)
      THEN /\ lastOp' = RecvOp("SkipExceedsMax", e)
           /\ UNCHANGED <<loop_pc, ev>>
    ELSE IF AmountBelowMin(e.volume_change)
      THEN /\ lastOp' = RecvOp("SkipBelowMin", e)
           /\ UNCHANGED <<loop_pc, ev>>
    ELSE /\ ev' = e
         /\ loop_pc' = "dup"
         /\ lastOp' = RecvOp("Receive", e)

Receive(e) ==
    /\ loop_pc = "recv"
    /\ ReceiveChecks(e)
    /\ UNCHANGED <<aux, pools, buying_enabled, flag_holder, now, buyTasks, sweep_pc,
                   has_bought_tokens, tokens_to_sell, sellTasks>>

\* TradeInfoFromToken::from_json returned Err: log and continue.
ParseError ==
    /\ loop_pc = "recv"
    /\ lastOp' = Op("ParseError", NoMint)
    /\ UNCHANGED <<aux, pools, buying_enabled, flag_holder, now, loop_pc, ev,
                   buyTasks, sweep_pc, has_bought_tokens, tokens_to_sell,
                   sellTasks>>

\* The stream yields Err (or ends): break.
StreamError ==
    /\ loop_pc = "recv"
    /\ loop_pc' = "stopped"
    /\ lastOp' = Op("StreamError", NoMint)
    /\ UNCHANGED <<aux, pools, buying_enabled, flag_holder, now, ev, buyTasks,
                   sweep_pc, has_bought_tokens, tokens_to_sell, sellTasks>>

\* Variant: the guard looks at open positions only.
IsDuplicateBoughtOnly(ps, m) ==
    \E p \in ps : p.mint = m /\ p.status = "Bought"

\* Variant: the guard looks at closed entries only.
IsDuplicateClosedOnly(ps, m) ==
    \E p \in ps : p.mint = m /\ p.status # "Bought"

\* is_duplicate: any entry with this mint, whatever its status.
IsDuplicate(ps, m) == \E p \in ps : p.mint = m

DupCheck ==
    /\ loop_pc = "dup"
    /\ IF IsDuplicate(pools, ev.mint)
         THEN /\ loop_pc' = "recv"
              /\ ev' = NoEvent
              /\ lastOp' = Op("Duplicate", ev.mint)
         ELSE /\ loop_pc' = "flag"
              /\ ev' = ev
              /\ lastOp' = Op("DupCheck", ev.mint)
    /\ UNCHANGED <<aux, pools, buying_enabled, flag_holder, now, buyTasks, sweep_pc,
                   has_bought_tokens, tokens_to_sell, sellTasks>>

\* Read BUYING_ENABLED in its own lock scope.
FlagCheck ==
    /\ loop_pc = "flag"
    /\ flag_holder = Free
    /\ IF ~buying_enabled
         THEN /\ loop_pc' = "recv"
              /\ ev' = NoEvent
              /\ lastOp' = Op("SkipBuy", ev.mint)
         ELSE /\ loop_pc' = "set"
              /\ ev' = ev
              /\ lastOp' = Op("FlagCheck", ev.mint)
    /\ UNCHANGED <<aux, pools, buying_enabled, flag_holder, now, buyTasks, sweep_pc,
                   has_bought_tokens, tokens_to_sell, sellTasks>>

\* *buying_enabled = false; tokio::spawn(buy task).
Admit ==
    /\ loop_pc = "set"
    /\ flag_holder = Free
    /\ BagCardinality(buyTasks) < MaxBuyTasks
    /\ buying_enabled' = FALSE
    /\ buyTasks' = BagAdd(buyTasks, [mint |-> ev.mint])
    /\ loop_pc' = "recv"
    /\ ev' = NoEvent
    /\ lastOp' = [op |-> "Admit", mint |-> ev.mint,
                  instruction_type |-> ev.instruction_type]
    /\ UNCHANGED <<aux, pools, flag_holder, now, sweep_pc, has_bought_tokens,
                   tokens_to_sell, sellTasks>>

\* -------------------------------------------------------------- buy task
\* A spawned buy task awaits build_swap_ixn_by_mint and then
\* new_signed_and_send_zeroslot; neither touches shared state, so the task
\* is in one position ("run") until the step that consumes an outcome.

\* Variant: the failure arm leaves BUYING_ENABLED as it was.
BuyFailKeepsFlag(t, stage) ==
    /\ BagIn(t, buyTasks)
    /\ flag_holder = Free
    /\ buying_enabled' = buying_enabled
    /\ flag_holder' = [mint |-> t.mint, stage |-> stage]
    /\ buyTasks' = BagRemove(buyTasks, t)
    /\ UNCHANGED <<aux, pools, now, loop_pc, ev, sweep_pc, has_bought_tokens,
                   tokens_to_sell, sellTasks>>

\* Failure arm, first half: lock BUYING_ENABLED, set it, keep the guard.
BuyFailEnable(t, stage) ==
    /\ BagIn(t, buyTasks)
    /\ flag_holder = Free
    /\ buying_enabled' = TRUE
    /\ flag_holder' = [mint |-> t.mint, stage |-> stage]
    /\ buyTasks' = BagRemove(buyTasks, t)
    /\ UNCHANGED <<aux, pools, now, loop_pc, ev, sweep_pc, has_bought_tokens,
                   tokens_to_sell, sellTasks>>

\* build_swap_ixn_by_mint returned Err.
BuyBuildErr(t) ==
    /\ BuyFailEnable(t, "build")
    /\ lastOp' = Op("BuyBuildErr", t.mint)

\* new_signed_and_send_zeroslot returned Err.
BuySendErr(t) ==
    /\ BuyFailEnable(t, "send")
    /\ lastOp' = Op("BuySendErr", t.mint)

\* Failure arm, second half: retain + insert the Failure entry, drop guards.
BuyFailWrite ==
    /\ flag_holder # Free
    /\ pools' = RetainInsert(pools, Pool(flag_holder.mint, "Failure", None))
    /\ flag_holder' = Free
    /\ lastOp' = [op |-> "BuyFailWrite", mint |-> flag_holder.mint,
                  stage |-> flag_holder.stage]
    /\ UNCHANGED <<aux, buying_enabled, now, loop_pc, ev, buyTasks, sweep_pc,
                   has_bought_tokens, tokens_to_sell, sellTasks>>

\* Both calls returned Ok: retain + insert the Bought entry.
BuySendOk(t) ==
    /\ BagIn(t, buyTasks)
    /\ pools' = RetainInsert(pools, Pool(t.mint, "Bought", now))
    /\ buyTasks' = BagRemove(buyTasks, t)
    /\ lastOp' = Op("BuySendOk", t.mint)
    /\ UNCHANGED <<aux, buying_enabled, flag_holder, now, loop_pc, ev, sweep_pc,
                   has_bought_tokens, tokens_to_sell, sellTasks>>

\* ----------------------------------------------------------------- sweep
SweepScan ==
    /\ sweep_pc = "sleep"
    /\ BagCardinality(sellTasks) + Cardinality(TimedOut(pools, now))
          <= MaxSellTasks
    /\ has_bought_tokens' = AnyBought(pools)
    /\ tokens_to_sell' = TimedOut(pools, now)
    /\ sweep_pc' = "update"
    /\ lastOp' = Op("SweepScan", NoMint)
    /\ UNCHANGED <<aux, pools, buying_enabled, flag_holder, now, loop_pc, ev,
                   buyTasks, sellTasks>>

\* tokio::spawn of one forced-sell task per timed-out mint.
SpawnSells(b, toSell) ==
    b (+) SetToBag({[mint |-> m, pc |-> "run"] : m \in toSell})

SweepUpdate ==
    /\ sweep_pc = "update"
    /\ flag_holder = Free
    /\ buying_enabled' = ~has_bought_tokens
    /\ sellTasks' = SpawnSells(sellTasks, tokens_to_sell)
    /\ sweep_pc' = "sleep"
    /\ has_bought_tokens' = FALSE
    /\ tokens_to_sell' = {}
    /\ lastOp' = [op |-> "SweepUpdate", mint |-> NoMint,
                  spawned |-> tokens_to_sell]
    /\ UNCHANGED <<aux, pools, flag_holder, now, loop_pc, ev, buyTasks>>

\* ------------------------------------------------------ forced-sell task
\* The task awaits build_swap_ixn_by_mint, get_latest_blockhash and
\* new_signed_and_send_zeroslot in position "run".

\* Variant: the Err arm records a Failure entry and re-enables buying.
SellAbortMarksFailure(t) ==
    /\ BagIn(t, sellTasks) /\ t.pc = "run"
    /\ sellTasks' = BagRemove(sellTasks, t)
    /\ pools' = RetainInsert(pools, Pool(t.mint, "Failure", None))
    /\ buying_enabled' = TRUE
    /\ UNCHANGED <<aux, flag_holder, now, loop_pc, ev, buyTasks, sweep_pc,
                   has_bought_tokens, tokens_to_sell>>

\* An Err arm of the forced-sell task: log only, the task ends.
SellAbort(t) ==
    /\ BagIn(t, sellTasks) /\ t.pc = "run"
    /\ sellTasks' = BagRemove(sellTasks, t)
    /\ UNCHANGED <<aux, pools, buying_enabled, flag_holder, now, loop_pc, ev,
                   buyTasks, sweep_pc, has_bought_tokens, tokens_to_sell>>

SellBuildErr(t) ==
    SellAbort(t) /\ lastOp' = Op("SellBuildErr", t.mint)

SellBlockhashErr(t) ==
    SellAbort(t) /\ lastOp' = Op("SellBlockhashErr", t.mint)

SellSendErr(t) ==
    SellAbort(t) /\ lastOp' = Op("SellSendErr", t.mint)

SellSendOk(t) ==
    /\ BagIn(t, sellTasks) /\ t.pc = "run"
    /\ pools' = RetainInsert(pools, Pool(t.mint, "Sold", now))
    /\ sellTasks' = BagAdd(BagRemove(sellTasks, t), [t EXCEPT !.pc = "check"])
    /\ lastOp' = Op("SellSendOk", t.mint)
    /\ UNCHANGED <<aux, buying_enabled, flag_holder, now, loop_pc, ev, buyTasks,
                   sweep_pc, has_bought_tokens, tokens_to_sell>>

\* all_sold = !pools.iter().any(Bought), in its own lock scope.
SellCheckAllSold(t) ==
    /\ BagIn(t, sellTasks) /\ t.pc = "check"
    /\ IF ~AnyBought(pools)
         THEN sellTasks' = BagAdd(BagRemove(sellTasks, t),
                                  [t EXCEPT !.pc = "enable"])
         ELSE sellTasks' = BagRemove(sellTasks, t)
    /\ lastOp' = [op |-> "SellCheckAllSold", mint |-> t.mint,
                  all_sold |-> ~AnyBought(pools)]
    /\ UNCHANGED <<aux, pools, buying_enabled, flag_holder, now, loop_pc, ev,
                   buyTasks, sweep_pc, has_bought_tokens, tokens_to_sell>>

SellEnable(t) ==
    /\ BagIn(t, sellTasks) /\ t.pc = "enable"
    /\ flag_holder = Free
    /\ buying_enabled' = TRUE
    /\ sellTasks' = BagRemove(sellTasks, t)
    /\ lastOp' = Op("SellEnable", t.mint)
    /\ UNCHANGED <<aux, pools, flag_holder, now, loop_pc, ev, buyTasks, sweep_pc,
                   has_bought_tokens, tokens_to_sell>>

\* ----------------------------------------------------------------- clock
Tick ==
    /\ now < MaxTime
    /\ now' = now + 1
    /\ lastOp' = Op("Tick", NoMint)
    /\ UNCHANGED <<aux, pools, buying_enabled, flag_holder, loop_pc, ev, buyTasks,
                   sweep_pc, has_bought_tokens, tokens_to_sell, sellTasks>>

\* ------------------------------------------------- PumpSwap calls
\* amm holds the call in progress: its arguments and its result, until the
\* caller consumes it (Return).
Ledger == <<pools, buying_enabled, flag_holder, now, loop_pc, ev, buyTasks,
            sweep_pc, has_bought_tokens, tokens_to_sell, sellTasks, lastOp>>

\* A call of calculate_buy_base_amount.
QuoteBuy ==
    /\ amm = AmmIdle
    /\ \E quote_in, quote_reserve, base_reserve \in Amounts :
          amm' = [op |-> "quote_buy", quote_in |-> quote_in,
                  quote_reserve |-> quote_reserve,
                  base_reserve |-> base_reserve,
                  out |-> calculate_buy_base_amount(quote_in, quote_reserve,
                                                    base_reserve)]
    /\ UNCHANGED <<Ledger, arbVars, cacheVars, streamVars, extraVars>>

\* A call of calculate_sell_quote_amount.
QuoteSell ==
    /\ amm = AmmIdle
    /\ \E base_in, base_reserve, quote_reserve \in Amounts :
          amm' = [op |-> "quote_sell", base_in |-> base_in,
                  base_reserve |-> base_reserve,
                  quote_reserve |-> quote_reserve,
                  out |-> calculate_sell_quote_amount(base_in, base_reserve,
                                                      quote_reserve)]
    /\ UNCHANGED <<Ledger, arbVars, cacheVars, streamVars, extraVars>>

\* The base amount of the last buy quote sold back into the pool the buy
\* leaves behind: (base_reserve - base_out, quote_reserve + quote_in).
SellBack ==
    /\ amm.op = "quote_buy"
    /\ amm.quote_in > 0 /\ amm.quote_reserve > 0 /\ amm.base_reserve > 0
    /\ amm.quote_reserve + amm.quote_in <= U64_MAX
    /\ amm' = [op |-> "sell_back", quote_in |-> amm.quote_in,
               quote_reserve |-> amm.quote_reserve,
               base_reserve |-> amm.base_reserve, base_out |-> amm.out,
               quote_back |->
                   calculate_sell_quote_amount(amm.out,
                       amm.base_reserve - amm.out,
                       amm.quote_reserve + amm.quote_in)]
    /\ UNCHANGED <<Ledger, arbVars, cacheVars, streamVars, extraVars>>

\* A call of min_amount_with_slippage and of max_amount_with_slippage on the
\* same amount and tolerance.
SlippageBounds ==
    /\ amm = AmmIdle
    /\ \E amount \in Amounts, slippage_bps \in SlippageBps :
          amm' = [op |-> "slippage", amount |-> amount,
                  slippage_bps |-> slippage_bps,
                  min |-> min_amount_with_slippage(amount, slippage_bps),
                  max |-> max_amount_with_slippage(amount, slippage_bps)]
    /\ UNCHANGED <<Ledger, arbVars, cacheVars, streamVars, extraVars>>

\* A call of build_swap_ixn_by_mint with SwapDirection::Buy: the amount, the
\* configured slippage, the two balance fetches of get_pool_info, whether
\* the output token account exists and whether the call has expired.
BuildBuy ==
    /\ amm = AmmIdle
    /\ \E amount_specified \in Amounts, slippage \in Slippages,
          fq, fb \in Fetches, out_ata_exists, expired \in BOOLEAN :
          amm' = build_swap_ixn_buy(amount_specified, slippage, fq, fb,
                                    out_ata_exists, expired)
    /\ UNCHANGED <<Ledger, arbVars, cacheVars, streamVars, extraVars>>

\* The call of build_swap_ixn_by_mint by a forced-sell task (monitor.rs
\* 1663-1681): the balance of the token account, the two balance fetches
\* of get_pool_info and whether the token account exists.
BuildForcedSell ==
    /\ amm = AmmIdle
    /\ \E balance \in Amounts, fq, fb \in Fetches, in_ata_exists \in BOOLEAN :
          amm' = build_swap_ixn_sell(balance, FORCED_SELL_SLIPPAGE, fq, fb,
                                     in_ata_exists)
    /\ UNCHANGED <<Ledger, arbVars, cacheVars, streamVars, extraVars>>

\* The call returns; its result is consumed.
Return ==
    /\ amm # AmmIdle
    /\ amm' = AmmIdle
    /\ UNCHANGED <<Ledger, arbVars, cacheVars, streamVars, extraVars>>

NextAmm ==
    \/ QuoteBuy
    \/ QuoteSell
    \/ SellBack
    \/ SlippageBounds
    \/ BuildBuy
    \/ BuildForcedSell
    \/ Return

SpecAmm == Init /\ [][NextAmm]_vars

\* ---------------------------------------------------- PoolCacheManager
\* Every call takes the cache mutex for its whole body (pool_discovery.rs
\* 114, 121, 129), so a call is one step whatever the number of callers.
Constructed == cache_ret.op # "none" /\ cache_ret.ok

\* Cache files found at startup: none, an unreadable one, a saved cache, and
\* a hand-edited one that lists a pool_id twice.
FileSamples ==
    {FileAbsent, FileCorrupt,
     FileOf([t \in {"OtherMint"} |-> <<PoolInfo("P1", None, None)>>]),
     FileOf([t \in {mock_token_mint} |->
                <<PoolInfo("P1", None, None), PoolInfo("P1", 10300, 15000000)>>])}

InitCache ==
    /\ InitLedger
    /\ amm = AmmIdle
    /\ InitNoArb
    /\ InitStreamVars
    /\ InitExtra
    /\ cache = EmptyCache
    /\ cache_file \in FileSamples
    /\ cache_ret = NoCall

\* PoolCacheManager::new (pool_discovery.rs 105-111), called by
\* arbitrage_monitor, which returns Err when it fails (monitor.rs 2218-2223).
ManagerNew ==
    /\ cache_ret = NoCall
    /\ cache' = load(cache_file).cache
    /\ cache_ret' = [op |-> "new", ok |-> load(cache_file).ok]
    /\ UNCHANGED <<cache_file, Ledger, ammVars, arbVars, streamVars, extraVars>>

\* PoolCacheManager::add_pool (pool_discovery.rs 120-125)
AddPool ==
    /\ Constructed
    /\ \E token_mint \in Tokens, pool_info \in PoolInfos,
          outcome \in SaveOutcomes :
          LET r == after_save(cache, add_pool(cache, token_mint, pool_info),
                              cache_file, outcome)
          IN  /\ cache' = r.cache
              /\ cache_file' = r.file
              /\ cache_ret' = [op |-> "add_pool", ok |-> r.ok,
                               token_mint |-> token_mint,
                               pool_info |-> pool_info]
    /\ UNCHANGED <<Ledger, ammVars, arbVars, streamVars, extraVars>>

\* PoolCacheManager::update_pool_price (pool_discovery.rs 128-144)
UpdatePoolPrice ==
    /\ Constructed
    /\ \E token_mint \in Tokens, pool_id \in PoolIds, price \in CachePrices,
          outcome \in SaveOutcomes :
          LET r == after_save(cache,
                       update_price(cache, token_mint, pool_id, price,
                                    15000000),
                       cache_file, outcome)
          IN  /\ cache' = r.cache
              /\ cache_file' = r.file
              /\ cache_ret' = [op |-> "update_pool_price", ok |-> r.ok,
                               token_mint |-> token_mint,
                               pool_id |-> pool_id, price |-> price]
    /\ UNCHANGED <<Ledger, ammVars, arbVars, streamVars, extraVars>>

\* PoolCacheManager::get_cache (pool_discovery.rs 113-117): a clone.  No
\* holder of the mutex can panic, so the lock is never poisoned.
GetCache ==
    /\ Constructed
    /\ cache_ret.op # "get_cache"
    /\ cache_ret' = [op |-> "get_cache", ok |-> TRUE, value |-> cache]
    /\ UNCHANGED <<cache, cache_file, Ledger, ammVars, arbVars, streamVars, extraVars>>

NextCache ==
    \/ ManagerNew
    \/ AddPool
    \/ UpdatePoolPrice
    \/ GetCache

SpecCache == InitCache /\ [][NextCache]_vars

\* ---------------------------------------------------- arbitrage_monitor
\* The caches the monitor runs with: keyed by the monitored mints, which
\* never include the mock mint of the price table.
ArbCaches ==
    {EmptyCache,
     [t \in {"OtherMint"} |->
         <<PoolInfo("P1", None, None), PoolInfo("P2", None, None)>>]}

InitArb ==
    /\ InitLedger
    /\ amm = AmmIdle
    /\ InitStreamVars
    /\ InitExtra
    /\ arbitrage_threshold_pct \in Thresholds
    /\ min_liquidity \in MinLiquidities
    /\ token_prices = NoPrices
    /\ arb = ArbIdle
    /\ cache \in ArbCaches
    /\ cache_file = FileOf(cache)
    /\ cache_ret = [op |-> "new", ok |-> TRUE]

\* The event loop records a price for a DEX (monitor.rs 2630-2638).  The
\* source writes a mock price in [1.0, 1.1) and a mock liquidity; the table
\* is written here with any sampled price and liquidity.  The opportunities
\* of a sweep are a local value, so the update is taken between sweeps.
PriceUpdate ==
    /\ arb = ArbIdle
    /\ \E dex \in Dexes, price \in PriceSamples,
          liquidity \in LiquiditySamples :
          token_prices' = InsertPrice(token_prices, dex, price, liquidity)
    /\ UNCHANGED <<arbitrage_threshold_pct, min_liquidity, arb,
                   Ledger, ammVars, cacheVars, streamVars, extraVars>>

\* One iteration of the 5-second sweep (monitor.rs 2450-2523): the table is
\* read under its lock in some iteration order.
ArbSweep ==
    /\ arb = ArbIdle
    /\ \E order \in Orders(DOMAIN token_prices) :
          arb' = [op |-> "sweep", prices |-> token_prices, order |-> order,
                  opportunities |->
                      Opportunities(token_prices, order, cache,
                                    arbitrage_threshold_pct, min_liquidity)]
    /\ UNCHANGED <<arbitrage_threshold_pct, min_liquidity, token_prices,
                   Ledger, ammVars, cacheVars, streamVars, extraVars>>

\* The opportunities are logged and written to their record files
\* (monitor.rs 2525-2582).
ArbRecorded ==
    /\ arb # ArbIdle
    /\ arb' = ArbIdle
    /\ UNCHANGED <<arbitrage_threshold_pct, min_liquidity, token_prices,
                   Ledger, ammVars, cacheVars, streamVars, extraVars>>

NextArb ==
    \/ PriceUpdate
    \/ ArbSweep
    \/ ArbRecorded

SpecArb == InitArb /\ [][NextArb]_vars

\* ------------------------------------- stream front end of the event loop
\* copy_trader_pumpfun's loop with its keepalive task.  The admission steps
\* (DupCheck, FlagCheck, Admit) are those of the ledger model; buy tasks
\* and the sweep are left unscheduled here.
\* Ledgers at which the loop is observed: empty, and after a failed buy.
StreamLedgers == {{}, {Pool(1, "Failure", None)}}

InitStream ==
    /\ pools \in StreamLedgers
    /\ buying_enabled = TRUE
    /\ flag_holder = Free
    /\ now = 0
    /\ loop_pc = "recv"
    /\ ev = NoEvent
    /\ buyTasks = EmptyBag
    /\ sweep_pc = "sleep"
    /\ has_bought_tokens = FALSE
    /\ tokens_to_sell = {}
    /\ sellTasks = EmptyBag
    /\ lastOp = Op("Init", NoMint)
    /\ amm = AmmIdle
    /\ InitNoArb
    /\ InitNoCache
    /\ InitStreamVars
    /\ InitExtra

\* The loop is at stream.next() with the previous update fully handled.
AtNext == loop_pc = "recv" /\ stream.pc = "done"

LoopIdle == <<pools, buying_enabled, flag_holder, now, buyTasks, sweep_pc,
              has_bought_tokens, tokens_to_sell, sellTasks>>

\* stream.next() yields Ok(msg) with a Ping, a Pong or another update that
\* is no transaction (monitor.rs 1941-1951): process_stream_message is
\* entered, and a reply is due for the kinds it answers.
StreamControl ==
    /\ AtNext
    /\ \E kind \in {"ping", "pong", "other"} :
          /\ stream' = Message(kind,
                               IF RepliesTo(kind) THEN "reply" ELSE "done",
                               0, "none", FALSE, "none")
          /\ lastOp' = Op(kind, NoMint)
    /\ UNCHANGED <<LoopIdle, loop_pc, ev, keepalive, ammVars, arbVars,
                   cacheVars, extraVars>>

\* handle_ping_message (monitor.rs 745-766): one send on the sink, which
\* succeeds or fails; then the loop goes on (monitor.rs 1945-1948).
PingReply ==
    /\ loop_pc = "recv"
    /\ stream.pc = "reply"
    /\ \E ok \in BOOLEAN :
          /\ stream' = [stream EXCEPT !.pc = "done",
                                      !.replies = @ + 1,
                                      !.reply = IF ok THEN "ok" ELSE "err"]
          /\ loop_pc' = AfterReply(ok)
          /\ lastOp' = Op(IF ok THEN "PingReply" ELSE "PingReplyError",
                          NoMint)
    /\ UNCHANGED <<LoopIdle, ev, keepalive, ammVars, arbVars, cacheVars, extraVars>>

\* stream.next() yields a transaction update (monitor.rs 1950-1971): without
\* log messages it is passed over; otherwise from_json classifies it and an
\* error is logged before the loop continues.
StreamTransaction ==
    /\ AtNext
    /\ \E shape \in TxnShapes \ {"no_transaction"}, logs \in Logs :
          LET result == IF shape = "no_meta" THEN "skipped"
                        ELSE from_json(shape, logs)
          IN  /\ stream' = Message("txn",
                               IF result \in InstructionType
                                 THEN "classified" ELSE "done",
                               0, "none", HasMarker(logs), result)
              /\ lastOp' = Op(IF result = "skipped" THEN "NoLogs"
                              ELSE IF result \in InstructionType
                                THEN "Classified" ELSE "ParseError",
                              NoMint)
    /\ UNCHANGED <<LoopIdle, loop_pc, ev, keepalive, ammVars, arbVars,
                   cacheVars, extraVars>>

\* The classified event meets the target filter and the buy-amount limits
\* (monitor.rs 1973-2012).
StreamReceive ==
    /\ loop_pc = "recv"
    /\ stream.pc = "classified"
    /\ \E e \in Events :
          /\ e.instruction_type = stream.result
          /\ ReceiveChecks(e)
    /\ stream' = [stream EXCEPT !.pc = "done"]
    /\ UNCHANGED <<LoopIdle, keepalive, ammVars, arbVars, cacheVars, extraVars>>

\* stream.next() yields Err (break, monitor.rs 2183-2190) or None (the
\* while let ends).
StreamClosed ==
    /\ AtNext
    /\ \E kind \in {"err", "end"} :
          /\ stream' = Message(kind, "done", 0, "none", FALSE, "none")
          /\ lastOp' = Op(kind, NoMint)
    /\ loop_pc' = "stopped"
    /\ UNCHANGED <<LoopIdle, ev, keepalive, ammVars, arbVars, cacheVars, extraVars>>

\* interval.tick() of the keepalive task (monitor.rs 1562-1565).  The task
\* is followed for as long as the event loop runs.
KeepaliveTick ==
    /\ loop_pc # "stopped"
    /\ keepalive.pc = "wait"
    /\ keepalive' = [keepalive EXCEPT !.pc = "send"]
    /\ UNCHANGED <<Ledger, stream, ammVars, arbVars, cacheVars, extraVars>>

\* send_heartbeat_ping (monitor.rs 788-809) and the task's reaction
\* (monitor.rs 1567-1570).
KeepaliveSend ==
    /\ keepalive.pc = "send"
    /\ \E ok \in BOOLEAN :
          keepalive' = [pc |-> AfterHeartbeat(ok),
                        last |-> IF ok THEN "ok" ELSE "err"]
    /\ UNCHANGED <<Ledger, stream, ammVars, arbVars, cacheVars, extraVars>>

NextStream ==
    \/ StreamControl
    \/ PingReply
    \/ StreamTransaction
    \/ StreamReceive
    \/ StreamClosed
    \/ DupCheck
    \/ FlagCheck
    \/ Admit
    \/ KeepaliveTick
    \/ KeepaliveSend

SpecStream == InitStream /\ [][NextStream]_vars

\* The sink mutex is held for one send only and the runtime polls every
\* task that is ready, so a send that is due is made.
SpecStreamLive == SpecStream /\ WF_vars(KeepaliveSend)

\* ---------------------------------------------------- subscription setup
\* The subscribe loop of copy_trader_pumpfun (monitor.rs 1427-1444) and of
\* arbitrage_monitor (monitor.rs 2329-2346), after connect() succeeded;
\* once subscribed, the event loop and its keepalive task run.
InitStartup ==
    /\ pools \in StreamLedgers
    /\ buying_enabled = TRUE
    /\ flag_holder = Free
    /\ now = 0
    /\ loop_pc = "recv"
    /\ ev = NoEvent
    /\ buyTasks = EmptyBag
    /\ sweep_pc = "sleep"
    /\ has_bought_tokens = FALSE
    /\ tokens_to_sell = {}
    /\ sellTasks = EmptyBag
    /\ lastOp = Op("Init", NoMint)
    /\ amm = AmmIdle
    /\ InitNoArb
    /\ InitNoCache
    /\ stream = NoMessage
    /\ keepalive = KeepaliveStart
    /\ sub = Setup("subscribe", 0, 0, 0)
    /\ task_pc = NoTasks
    /\ holder = AllFree
    /\ InitNoTracking
    /\ classified = NotClassified

NotSetup == <<Ledger, ammVars, arbVars, cacheVars, streamVars, lockVars,
              trackVars, classifyVars>>

\* client.subscribe().await returns Ok(pair): break pair.
SubscribeOk ==
    /\ sub.pc = "subscribe"
    /\ sub' = [sub EXCEPT !.pc = "monitoring", !.attempts = @ + 1]
    /\ UNCHANGED NotSetup

\* client.subscribe().await returns Err(e).
SubscribeErr ==
    /\ sub.pc = "subscribe"
    /\ sub' = [sub EXCEPT !.pc = AfterSubscribeErr(sub.retry_count + 1),
                          !.retry_count = @ + 1,
                          !.attempts = @ + 1]
    /\ UNCHANGED NotSetup

\* time::sleep(Duration::from_secs(5)).await returns.
SubscribeSleep ==
    /\ sub.pc = "sleep"
    /\ sub' = [sub EXCEPT !.pc = "subscribe",
                          !.slept = @ + RETRY_DELAY_SECS]
    /\ UNCHANGED NotSetup

\* The tasks spawned after the setup and the event loop.
Monitoring ==
    /\ sub.pc = "monitoring"
    /\ NextStream

NextStartup ==
    \/ SubscribeOk
    \/ SubscribeErr
    \/ SubscribeSleep
    \/ Monitoring

SpecStartup == InitStartup /\ [][NextStartup]_vars

\* Every subscribe call and every sleep returns.
SpecStartupLive ==
    /\ SpecStartup
    /\ WF_vars(SubscribeOk \/ SubscribeErr)
    /\ WF_vars(SubscribeSleep)

\* ------------------------------------------------------- lock discipline
\* The tasks of one monitor after their spawn, each at the start of its
\* program, every mutex free.
InitLocks ==
    /\ InitLedger
    /\ amm = AmmIdle
    /\ InitNoArb
    /\ InitNoCache
    /\ InitStreamVars
    /\ sub = Subscribed
    /\ task_pc \in {MonitorStart(CopyTraderTasks), MonitorStart(ArbitrageTasks)}
    /\ holder = AllFree
    /\ InitNoTracking
    /\ classified = NotClassified

NotLocks == <<Ledger, ammVars, arbVars, cacheVars, streamVars, setupVars,
              trackVars, classifyVars>>

Running == {t \in Tasks : task_pc[t] # "off"}
At(t) == Program(t)[task_pc[t]]
Held(t) == {l \in Locks : holder[l] = t}

\* .lock().unwrap() or .lock().await returns the guard: the mutex is free.
Acquire(t) ==
    /\ At(t).op \in {"lock", "lock_await"}
    /\ holder[At(t).arg] = Unlocked
    /\ holder' = [holder EXCEPT ![At(t).arg] = t]
    /\ \E n \in At(t).next : task_pc' = [task_pc EXCEPT ![t] = n]
    /\ UNCHANGED NotLocks

\* The guard goes out of scope.
Release(t) ==
    /\ At(t).op = "unlock"
    /\ holder[At(t).arg] = t
    /\ holder' = [holder EXCEPT ![At(t).arg] = Unlocked]
    /\ \E n \in At(t).next : task_pc' = [task_pc EXCEPT ![t] = n]
    /\ UNCHANGED NotLocks

\* The awaited future completes and the task runs on.
Resume(t) ==
    /\ At(t).op = "await"
    /\ \E n \in At(t).next : task_pc' = [task_pc EXCEPT ![t] = n]
    /\ UNCHANGED <<holder, NotLocks>>

\* tokio::spawn: the spawned task starts (one task of each kind at a time).
SpawnTask(t) ==
    /\ At(t).op = "spawn"
    /\ \E n \in At(t).next :
         task_pc' = [task_pc EXCEPT
                       ![t] = n,
                       ![At(t).arg] =
                           IF @ = "idle"
                             THEN CHOOSE m \in Program(At(t).arg)["idle"].next : TRUE
                             ELSE @]
    /\ UNCHANGED <<holder, NotLocks>>

NextLocks ==
    \/ \E t \in Running : Acquire(t)
    \/ \E t \in Running : Release(t)
    \/ \E t \in Running : Resume(t)
    \/ \E t \in Running : SpawnTask(t)

SpecLocks == InitLocks /\ [][NextLocks]_vars

\* -------------------------------------------------------- price tracking
\* The price tasks of copy_trader_pumpfun's price monitor (monitor.rs
\* 1838-1933) on TOKEN_TRACKING; each lock scope is one step. The map is
\* empty, or holds one entry that earlier price tasks filled up to, or one
\* short of, the limit.
InitTrack ==
    /\ InitLedger
    /\ amm = AmmIdle
    /\ InitNoArb
    /\ InitNoCache
    /\ InitStreamVars
    /\ sub = Subscribed
    /\ task_pc = NoTasks
    /\ holder = AllFree
    /\ \E n \in {0, HISTORY_LIMIT - 1, HISTORY_LIMIT} :
         /\ tracking = [m \in Mints |->
                          IF m = 1 /\ n > 0 THEN TrackedFor(n) ELSE Untracked]
         /\ track_clock = n
    /\ priceTasks = [i \in 1..MaxPriceTasks |-> NoPriceTask]
    /\ fetches = 0
    /\ classified = NotClassified

NotTrack == <<Ledger, ammVars, arbVars, cacheVars, streamVars, setupVars,
              lockVars, classifyVars>>

\* tokio::spawn of the price task of one Bought pool.
SpawnPrice(i, m) ==
    /\ priceTasks[i].pc = "idle"
    /\ fetches < MaxFetches
    /\ fetches' = fetches + 1
    /\ priceTasks' = [priceTasks EXCEPT ![i] = PriceTask("fetch", m, 0, 0, 0)]
    /\ UNCHANGED <<tracking, track_clock, NotTrack>>

\* get_token_price(&mint).await returns Ok(price); pnl is computed.
PriceFetchOk(i, price) ==
    /\ priceTasks[i].pc = "fetch"
    /\ priceTasks' = [priceTasks EXCEPT ![i] =
           PriceTask("entry", @.mint, price,
                     pnl_of(price, BoughtAt(@.mint)), 0)]
    /\ UNCHANGED <<tracking, track_clock, fetches, NotTrack>>

\* get_token_price(&mint).await returns Err: log and return.
PriceFetchErr(i) ==
    /\ priceTasks[i].pc = "fetch"
    /\ priceTasks' = [priceTasks EXCEPT ![i] = NoPriceTask]
    /\ UNCHANGED <<tracking, track_clock, fetches, NotTrack>>

\* tracking.entry(mint).or_insert_with(..).clone(), then the test
\* pnl > tracking_info.top_pnl on the clone.
TrackEntry(i) ==
    LET t == priceTasks[i]
        info == IF tracking[t.mint].present
                  THEN tracking[t.mint]
                  ELSE TrackingInfo(t.pnl, track_clock, <<>>)
    IN /\ t.pc = "entry"
       /\ tracking' = [tracking EXCEPT ![t.mint] = info]
       /\ priceTasks' = [priceTasks EXCEPT ![i] =
              [t EXCEPT !.top_pnl = info.top_pnl,
                        !.pc = IF t.pnl > info.top_pnl THEN "peak"
                                                        ELSE "check"]]
       /\ UNCHANGED <<track_clock, fetches, NotTrack>>

\* pnl > tracking_info.top_pnl: info.top_pnl = pnl and a sample is pushed,
\* in a new lock scope.
TrackPeak(i) ==
    LET t == priceTasks[i]
        info == tracking[t.mint]
    IN /\ t.pc = "peak"
       /\ track_clock' = track_clock + 1
       /\ tracking' = [tracking EXCEPT ![t.mint] =
              IF info.present
                THEN [info EXCEPT
                        !.top_pnl = t.pnl,
                        !.price_history =
                            push_sample(@, <<t.current_price, track_clock + 1>>)]
                ELSE info]
       /\ priceTasks' = [priceTasks EXCEPT ![i] =
              [t EXCEPT !.top_pnl = t.pnl, !.pc = "check"]]
       /\ UNCHANGED <<fetches, NotTrack>>

\* last_price_check is set and a sample is pushed, in a new lock scope.
TrackCheck(i) ==
    LET t == priceTasks[i]
        info == tracking[t.mint]
    IN /\ t.pc = "check"
       /\ track_clock' = track_clock + 1
       /\ tracking' = [tracking EXCEPT ![t.mint] =
              IF info.present
                THEN [info EXCEPT
                        !.last_price_check = track_clock + 1,
                        !.price_history =
                            push_sample(@, <<t.current_price, track_clock + 1>>)]
                ELSE info]
       /\ priceTasks' = [priceTasks EXCEPT ![i] = [t EXCEPT !.pc = "rate"]]
       /\ UNCHANGED <<fetches, NotTrack>>

\* price_change_rate is read from the history and logged; the task ends.
TrackRate(i) ==
    /\ priceTasks[i].pc = "rate"
    /\ priceTasks' = [priceTasks EXCEPT ![i] = NoPriceTask]
    /\ UNCHANGED <<tracking, track_clock, fetches, NotTrack>>

NextTrack ==
    \/ \E i \in 1..MaxPriceTasks, m \in Mints : SpawnPrice(i, m)
    \/ \E i \in 1..MaxPriceTasks, price \in TrackPrices : PriceFetchOk(i, price)
    \/ \E i \in 1..MaxPriceTasks : PriceFetchErr(i)
    \/ \E i \in 1..MaxPriceTasks : TrackEntry(i)
    \/ \E i \in 1..MaxPriceTasks : TrackPeak(i)
    \/ \E i \in 1..MaxPriceTasks : TrackCheck(i)
    \/ \E i \in 1..MaxPriceTasks : TrackRate(i)

SpecTrack == InitTrack /\ [][NextTrack]_vars

\* --------------------------------------------------------- classification
\* TradeInfoFromToken::from_json called on a transaction that has its
\* envelope, its meta and its message, for every list of log lines.
InitClassify == Init

\* from_json(txn, log_messages) returns.
Classify(logs) ==
    /\ classified' = Classified(logs, from_json("full", logs))
    /\ UNCHANGED <<Ledger, ammVars, arbVars, cacheVars, streamVars, setupVars,
                   lockVars, trackVars>>

NextClassify == \E logs \in ClassifyLogs : Classify(logs)

SpecClassify == InitClassify /\ [][NextClassify]_vars

Next ==
    \/ \E e \in Events : Receive(e)
    \/ ParseError
    \/ StreamError
    \/ DupCheck
    \/ FlagCheck
    \/ Admit
    \/ \E t \in BagToSet(buyTasks) : BuyBuildErr(t)
    \/ \E t \in BagToSet(buyTasks) : BuySendErr(t)
    \/ BuyFailWrite
    \/ \E t \in BagToSet(buyTasks) : BuySendOk(t)
    \/ SweepScan
    \/ SweepUpdate
    \/ \E t \in BagToSet(sellTasks) : SellBuildErr(t)
    \/ \E t \in BagToSet(sellTasks) : SellBlockhashErr(t)
    \/ \E t \in BagToSet(sellTasks) : SellSendOk(t)
    \/ \E t \in BagToSet(sellTasks) : SellSendErr(t)
    \/ \E t \in BagToSet(sellTasks) : SellCheckAllSold(t)
    \/ \E t \in BagToSet(sellTasks) : SellEnable(t)
    \/ Tick

Spec == Init /\ [][Next]_vars

TypeOK ==
    /\ buying_enabled \in BOOLEAN
    /\ now \in 0..MaxTime
    /\ loop_pc \in {"recv", "dup", "flag", "set", "stopped"}
    /\ sweep_pc \in {"sleep", "update"}
    /\ \A p \in pools : p.mint \in Mints
                        /\ p.status \in {"Bought", "Sold", "Failure"}

\* ======================================================================
\* Properties of the position ledger and BUYING_ENABLED
\* ======================================================================
StatusOf(ps, m) ==
    IF \E p \in ps : p.mint = m
      THEN (CHOOSE p \in ps : p.mint = m).status
      ELSE "absent"

BuyTasksInFlight ==
    BagCardinality(buyTasks) + (IF flag_holder # Free THEN 1 ELSE 0)

SellErrOps == {"SellBuildErr", "SellBlockhashErr", "SellSendErr"}

\* C1: the ledger never holds more than one entry with status Bought.
C1_AtMostOneBought == Cardinality(BoughtEntries(pools)) <= 1

\* C2: whenever no buy task is in flight, buying-enabled is true if and
\* only if the ledger holds no entry with status Bought.
C2_FlagIffNoBought ==
    BuyTasksInFlight = 0 => (buying_enabled <=> ~AnyBought(pools))

\* C3: at most one buy task is past admission and has not yet recorded its
\* outcome (Bought or Failure) in the ledger.
C3_AtMostOneBuyInFlight == BuyTasksInFlight <= 1

\* C4: the ledger holds at most one entry per mint.
C4_OneEntryPerMint ==
    \A p \in pools : \A q \in pools : p.mint = q.mint => p = q

\* C4 witness: a forced sell has replaced the Bought entry of a mint by its
\* Sold entry while the ledger also holds an entry of another mint.
C4_Witness ==
    /\ lastOp.op = "SellSendOk"
    /\ StatusOf(pools, lastOp.mint) = "Sold"
    /\ Cardinality(pools) = 2

\* C5 (as stated): an event for a mint whose entry is Failure, arriving
\* while buying-enabled is true, is not turned away by the duplicate guard.
C5_FailedDoesNotBlock ==
    ~(/\ lastOp.op = "Duplicate"
      /\ StatusOf(pools, lastOp.mint) = "Failure"
      /\ buying_enabled)

\* C5 (amended): a Failure entry blocks the mint.  An event whose mint has a
\* Failure entry when the duplicate guard runs is rejected: the loop goes
\* back to receiving, no buy task is spawned, ledger and flag are unchanged.
C5_FailedBlocks ==
    [][(/\ loop_pc = "dup"
        /\ StatusOf(pools, ev.mint) = "Failure"
        /\ lastOp'.op \in {"Duplicate", "DupCheck"})
       => (/\ lastOp' = Op("Duplicate", ev.mint)
           /\ loop_pc' = "recv"
           /\ buyTasks' = buyTasks
           /\ pools' = pools
           /\ buying_enabled' = buying_enabled)]_vars

\* C5 witness: an event for a mint with a Failure entry was just rejected
\* as a duplicate although buying was enabled.
C5_Witness ==
    /\ lastOp.op = "Duplicate"
    /\ StatusOf(pools, lastOp.mint) = "Failure"
    /\ buying_enabled
    /\ loop_pc = "recv"

\* C6: an event for a mint whose entry is Bought is rejected by the
\* duplicate guard whatever the value of buying-enabled: no task is spawned,
\* ledger and flag are unchanged.
C6_BoughtRejected ==
    [][(/\ loop_pc = "dup"
        /\ StatusOf(pools, ev.mint) = "Bought"
        /\ lastOp'.op \in {"Duplicate", "DupCheck"})
       => (/\ lastOp' = Op("Duplicate", ev.mint)
           /\ loop_pc' = "recv"
           /\ buyTasks' = buyTasks
           /\ pools' = pools
           /\ buying_enabled' = buying_enabled)]_vars

\* C6 witness: an event for a Bought mint was rejected while buying-enabled
\* was true.
C6_Witness ==
    /\ lastOp.op = "Duplicate"
    /\ StatusOf(pools, lastOp.mint) = "Bought"
    /\ buying_enabled
    /\ loop_pc = "recv"

\* C7: a sweep tick picks up every Bought entry older than MAX_WAIT_TIME and
\* spawns a forced sell for it; a successful forced sell leaves the entry
\* Sold, and when it then finds no Bought entry it ends with buying-enabled
\* true.
C7_TimeoutForcedSell ==
    [][/\ lastOp'.op = "SweepScan" =>
            \A p \in pools :
                (p.status = "Bought" /\ p.timestamp # None
                 /\ now - p.timestamp > MAX_WAIT_TIME)
                => p.mint \in tokens_to_sell'
       /\ lastOp'.op = "SweepUpdate" =>
            \A m \in tokens_to_sell :
                /\ BagIn([mint |-> m, pc |-> "run"], sellTasks')
                /\ CopiesIn([mint |-> m, pc |-> "run"], sellTasks')
                     > CopiesIn([mint |-> m, pc |-> "run"], sellTasks)
       /\ lastOp'.op = "SellSendOk" =>
            StatusOf(pools', lastOp'.mint) = "Sold"
       /\ (lastOp'.op = "SellCheckAllSold" /\ ~AnyBought(pools)) =>
            BagIn([mint |-> lastOp'.mint, pc |-> "enable"], sellTasks')
       /\ lastOp'.op = "SellEnable" => buying_enabled'
      ]_vars

\* C7 witness: a forced sell has completed, its entry is Sold, no Bought
\* entry remains and buying is enabled.
C7_Witness ==
    /\ lastOp.op = "SellEnable"
    /\ StatusOf(pools, lastOp.mint) = "Sold"
    /\ ~AnyBought(pools)
    /\ buying_enabled

\* C8: a failing buy task (build or send) sets buying-enabled and records a
\* Failure entry for its mint, leaving every other mint's entry untouched.
C8_BuyFailure ==
    [][/\ lastOp'.op \in {"BuyBuildErr", "BuySendErr"} =>
            (buying_enabled' /\ pools' = pools)
       /\ lastOp'.op = "BuyFailWrite" =>
            /\ lastOp'.stage \in {"build", "send"}
            /\ Pool(lastOp'.mint, "Failure", None) \in pools'
            /\ StatusOf(pools', lastOp'.mint) = "Failure"
            /\ buying_enabled'
            /\ {p \in pools' : p.mint # lastOp'.mint}
                 = {p \in pools : p.mint # lastOp'.mint}
      ]_vars

\* C8 witness: a buy that failed at the send stage has been recorded as
\* Failure next to another mint's entry, with buying enabled.
C8_Witness ==
    /\ lastOp.op = "BuyFailWrite"
    /\ lastOp.stage = "send"
    /\ StatusOf(pools, lastOp.mint) = "Failure"
    /\ Cardinality(pools) = 2
    /\ buying_enabled

\* C9 (as stated): after a forced-sell task has failed, the entry of its
\* mint is Failure and buying-enabled is true.
C9_SellFailureMarksFailed ==
    lastOp.op \in SellErrOps =>
        (StatusOf(pools, lastOp.mint) = "Failure" /\ buying_enabled)

\* C9 (amended): a forced-sell task that fails at any step (build,
\* blockhash, send) only logs: it changes neither the ledger nor
\* buying-enabled.
C9_SellFailureChangesNothing ==
    [][lastOp'.op \in SellErrOps =>
          (pools' = pools /\ buying_enabled' = buying_enabled)]_vars

\* C9 witness: a forced sell has failed at the send stage; the entry is
\* still Bought and buying is still disabled.
C9_Witness ==
    /\ lastOp.op = "SellSendErr"
    /\ StatusOf(pools, lastOp.mint) = "Bought"
    /\ ~buying_enabled

\* C10: only an event classified SwapBuy is admitted (spawns a buy task and
\* clears buying-enabled).
C10_OnlyBuyEventsAdmitted ==
    lastOp.op = "Admit" => lastOp.instruction_type = "SwapBuy"

\* C11: a buy task is spawned only for an event whose acting address is a
\* configured target and whose buy amount lies within
\* [min_dev_buy, max_dev_buy]; an event failing either check is skipped with
\* the ledger, the flag and the set of buy tasks unchanged.
RecvOps == {"Receive", "SkipNotTarget", "SkipExceedsMax", "SkipBelowMin"}

C11_AdmissionFilters ==
    [][/\ lastOp'.op = "Admit" =>
            /\ ev.target \in copy_trading_target_addresses
            /\ Abs(ev.volume_change) >= min_dev_buy * LAMPORTS_PER_SOL
            /\ Abs(ev.volume_change) <= max_dev_buy * LAMPORTS_PER_SOL
            /\ BagCardinality(buyTasks') = BagCardinality(buyTasks) + 1
       /\ (/\ lastOp'.op \in RecvOps
           /\ \/ lastOp'.target \notin copy_trading_target_addresses
              \/ Abs(lastOp'.volume_change) < min_dev_buy * LAMPORTS_PER_SOL
              \/ Abs(lastOp'.volume_change) > max_dev_buy * LAMPORTS_PER_SOL)
          => (/\ lastOp'.op # "Receive"
              /\ loop_pc' = "recv"
              /\ ev' = ev
              /\ pools' = pools
              /\ buying_enabled' = buying_enabled
              /\ buyTasks' = buyTasks)
      ]_vars

\* C11 witness: an event from the target with an amount below the minimum
\* was skipped while buying was enabled and nothing was in the ledger.
C11_Witness ==
    /\ lastOp.op = "SkipBelowMin"
    /\ lastOp.target \in copy_trading_target_addresses
    /\ buying_enabled
    /\ pools = {}
    /\ buyTasks = EmptyBag
    /\ loop_pc = "recv"
\* ======================================================================
\* Properties of the PumpSwap quotes, slippage bounds and swap builder
\* ======================================================================
PositiveBuy ==
    /\ amm.op = "quote_buy"
    /\ amm.quote_in > 0 /\ amm.quote_reserve > 0 /\ amm.base_reserve > 0

\* C12: for positive reserves and a positive quote_in, the result of
\* calculate_buy_base_amount is strictly less than base_reserve.
C12_BuyBelowReserve == PositiveBuy => amm.out < amm.base_reserve

\* C13: buying base_out with quote_in and selling base_out back into the
\* updated reserves returns at most quote_in.
C13_RoundTripNoGain == amm.op = "sell_back" => amm.quote_back <= amm.quote_in

\* C14: for every amount x and tolerance s below 10000 bps,
\* min_amount_with_slippage(x, s) <= x <= max_amount_with_slippage(x, s),
\* also where x * (10000 + s) does not fit the word.
C14_SlippageBrackets ==
    (amm.op = "slippage" /\ amm.slippage_bps < TEN_THOUSAND)
        => (amm.min <= amm.amount /\ amm.amount <= amm.max)

\* The product a * b can be formed directly (it stays below 2^31).
ProductFits(a, b) == b = 0 \/ a <= (2 * U64_MAX + 1) \div b

\* C15: calculate_buy_base_amount returns
\* base_reserve - floor(quote_reserve * base_reserve / (quote_reserve + quote_in))
\* whenever quote_reserve + quote_in fits the word, and 0 when quote_in or a
\* reserve is 0; reserves 1_000_000 / 500_000 with quote_in 10_000 give 19_608.
C15_BuyQuoteFormula ==
    amm.op = "quote_buy" =>
        LET qin == amm.quote_in
            qr  == amm.quote_reserve
            br  == amm.base_reserve
        IN  /\ (qin = 0 \/ qr = 0 \/ br = 0) => amm.out = 0
            /\ (/\ qin > 0 /\ qr > 0 /\ br > 0
                /\ qr + qin <= U64_MAX
                /\ ProductFits(qr, br))
                   => amm.out = br - ((qr * br) \div (qr + qin))
            /\ (qin = 10000 /\ qr = 500000 /\ br = 1000000)
                   => amm.out = 19608

C15_Witness ==
    amm = [op |-> "quote_buy", quote_in |-> 10000, quote_reserve |-> 500000,
           base_reserve |-> 1000000, out |-> 19608]

\* C16: calculate_sell_quote_amount returns
\* quote_reserve - floor(quote_reserve * base_reserve / (base_reserve + base_in))
\* whenever base_reserve + base_in fits the word, 0 when base_in or a reserve
\* is 0, and never more than quote_reserve.
C16_SellQuoteFormula ==
    amm.op = "quote_sell" =>
        LET bin == amm.base_in
            br  == amm.base_reserve
            qr  == amm.quote_reserve
        IN  /\ (bin = 0 \/ qr = 0 \/ br = 0) => amm.out = 0
            /\ (/\ bin > 0 /\ qr > 0 /\ br > 0
                /\ br + bin <= U64_MAX
                /\ ProductFits(qr, br))
                   => amm.out = qr - ((qr * br) \div (br + bin))
            /\ amm.out <= qr

C16_Witness ==
    amm = [op |-> "quote_sell", base_in |-> 10000, base_reserve |-> 1000000,
           quote_reserve |-> 500000, out |-> 4951]

\* The stated overflow policy: an operation that would overflow yields its
\* left-hand operand.
KeepLeftAdd(a, b) == IF a + b > U64_MAX THEN a ELSE a + b
KeepLeftSub(a, b) == IF b > a THEN a ELSE a - b
KeepLeftMul(a, b) == IF b # 0 /\ a > U64_MAX \div b THEN a ELSE a * b

PolicyBuy(qin, qr, br) ==
    IF qin = 0 \/ br = 0 \/ qr = 0 THEN 0
    ELSE KeepLeftSub(br, MulDivQR(qr, br, KeepLeftAdd(qr, qin))[1])
PolicySell(bin, br, qr) ==
    IF bin = 0 \/ br = 0 \/ qr = 0 THEN 0
    ELSE KeepLeftSub(qr, MulDivQR(qr, br, KeepLeftAdd(br, bin))[1])
PolicyMin(x, s) ==
    KeepLeftMul(x, KeepLeftSub(TEN_THOUSAND, s)) \div TEN_THOUSAND
PolicyMax(x, s) ==
    KeepLeftMul(x, KeepLeftAdd(s, TEN_THOUSAND)) \div TEN_THOUSAND
\* As PolicyMax, but slippage_bps + 10000 falls back to 10000, its
\* right-hand operand.
PolicyMaxNoSlippage(x, s) ==
    KeepLeftMul(x, IF s + TEN_THOUSAND > U64_MAX THEN TEN_THOUSAND
                   ELSE s + TEN_THOUSAND) \div TEN_THOUSAND

PolicyQuotes ==
    /\ amm.op = "quote_buy" =>
           amm.out = PolicyBuy(amm.quote_in, amm.quote_reserve,
                               amm.base_reserve)
    /\ amm.op = "quote_sell" =>
           amm.out = PolicySell(amm.base_in, amm.base_reserve,
                                amm.quote_reserve)
    /\ amm.op = "slippage" => amm.min = PolicyMin(amm.amount, amm.slippage_bps)

\* C17 as stated: in the quote and slippage functions every multiplication,
\* addition or subtraction that would overflow yields its left-hand operand,
\* never another value.
C17_KeepsLeftOperand ==
    /\ PolicyQuotes
    /\ amm.op = "slippage" => amm.max = PolicyMax(amm.amount, amm.slippage_bps)

\* C17 amended: every overflowing operation yields its left-hand operand,
\* except slippage_bps + 10000 in max_amount_with_slippage, which yields
\* 10000 (no tolerance); the results are never an error.
C17_OverflowFallbacks ==
    /\ PolicyQuotes
    /\ amm.op = "slippage" =>
           amm.max = PolicyMaxNoSlippage(amm.amount, amm.slippage_bps)

C17_Witness ==
    /\ amm.op = "slippage"
    /\ amm.slippage_bps + TEN_THOUSAND > U64_MAX
    /\ amm.amount = 1
    /\ amm.max = 1
    /\ PolicyMax(amm.amount, amm.slippage_bps) > 1

\* C18: where nothing overflows, max_amount_with_slippage(a, s) is
\* floor(a * (10000 + s) / 10000) and, for s <= 10000,
\* min_amount_with_slippage(a, s) is floor(a * (10000 - s) / 10000);
\* a = 100_000 with s = 50 gives 100_500 and 99_500.
C18_SlippageFormula ==
    amm.op = "slippage" =>
        LET a == amm.amount
            s == amm.slippage_bps
        IN  /\ (/\ s + TEN_THOUSAND <= U64_MAX
                /\ a <= U64_MAX \div (TEN_THOUSAND + s))
                   => amm.max = (a * (TEN_THOUSAND + s)) \div TEN_THOUSAND
            /\ (/\ s <= TEN_THOUSAND
                /\ (s = TEN_THOUSAND \/ a <= U64_MAX \div (TEN_THOUSAND - s)))
                   => amm.min = (a * (TEN_THOUSAND - s)) \div TEN_THOUSAND
            /\ (a = 100000 /\ s = 50)
                   => (amm.max = 100500 /\ amm.min = 99500)

C18_Witness ==
    amm = [op |-> "slippage", amount |-> 100000, slippage_bps |-> 50,
           min |-> 99500, max |-> 100500]

SwapBuilt ==
    /\ amm.op = "build_buy" /\ amm.ok
    /\ \E i \in DOMAIN amm.instructions : amm.instructions[i] = "swap"

\* C19: build_swap_ixn_by_mint fails for a buy whose computed base_out
\* exceeds base_reserve, so no buy instruction is built with a base amount
\* above the pool's base reserve.
C19_BuyWithinReserve ==
    /\ (/\ amm.op = "build_buy"
        /\ calculate_buy_base_amount(amm.amount_specified, amm.quote_reserve,
                                     amm.base_reserve) > amm.base_reserve)
           => ~amm.ok
    /\ SwapBuilt => amm.base_amount <= amm.base_reserve

C19_Witness ==
    /\ SwapBuilt
    /\ amm.base_reserve > 0
    /\ amm.base_amount = amm.base_reserve

\* C20: a buy against degenerate reserves (base_reserve = 0 or
\* quote_reserve = 0) or whose computed base_out is 0 ends in an error of the
\* builder, before anything is signed or broadcast.
C20_DegenerateBuyAborted ==
    (/\ amm.op = "build_buy"
     /\ \/ amm.base_reserve = 0
        \/ amm.quote_reserve = 0
        \/ calculate_buy_base_amount(amm.amount_specified, amm.quote_reserve,
                                     amm.base_reserve) = 0)
        => ~amm.ok

\* ------------------------------------------------- arbitrage sweep claims
\* The venues of slots i and j of the sweep's iteration order.
SweepPair(i, j) == {arb.order[i], arb.order[j]}
Emitted(i, j) ==
    \E k \in DOMAIN arb.opportunities :
        {arb.opportunities[k].buy_dex, arb.opportunities[k].sell_dex}
            = SweepPair(i, j)

\* C21: a sweep emits no opportunity for a pair of venues whose difference
\* |p1 - p2| / p2 * 100 is at or below the threshold, nor for a pair with a
\* venue whose liquidity is below min_liquidity.
C21_NoOpportunityBelowLimits ==
    arb.op = "sweep" =>
        \A i, j \in DOMAIN arb.order :
            LET q1 == arb.prices[arb.order[i]]
                q2 == arb.prices[arb.order[j]]
            IN  (/\ i < j
                 /\ \/ Abs(q1.price - q2.price) * 10000
                           <= arbitrage_threshold_pct * q2.price
                    \/ q1.liquidity < min_liquidity
                    \/ q2.liquidity < min_liquidity)
                => ~Emitted(i, j)

\* A sweep over 1.0625 then 1.0, both liquid, with a threshold of 6.25
\* percent: the difference equals the threshold and nothing is emitted.
C21_Witness ==
    /\ arb.op = "sweep"
    /\ arbitrage_threshold_pct = 625
    /\ Len(arb.order) = 2
    /\ arb.prices[arb.order[1]].price = 10625
    /\ arb.prices[arb.order[2]].price = 10000
    /\ arb.prices[arb.order[1]].liquidity >= min_liquidity
    /\ arb.prices[arb.order[2]].liquidity >= min_liquidity
    /\ arb.opportunities = <<>>

\* The table of the worked example: 1.00 with liquidity 20,000,000 on one
\* venue and 1.03 with 15,000,000 on another, threshold 2.0, minimum
\* liquidity 10,000,000.
ExampleTable ==
    /\ arb.op = "sweep"
    /\ arbitrage_threshold_pct = 200
    /\ min_liquidity = 10000000
    /\ Cardinality(DOMAIN arb.prices) = 2
    /\ \E a, b \in DOMAIN arb.prices :
          /\ arb.prices[a] = [price |-> 10000, liquidity |-> 20000000]
          /\ arb.prices[b] = [price |-> 10300, liquidity |-> 15000000]

\* C22: every emitted opportunity buys on the venue of the pair with the
\* lower price and sells on the other, with expected_profit_pct =
\* (sell - buy) / buy * 100, never negative; the example table yields
\* exactly one opportunity, buying at 1.00 and selling at 1.03 for 3.0%.
C22_BuyLowSellHigh ==
    arb.op = "sweep" =>
        /\ \A k \in DOMAIN arb.opportunities :
              LET o == arb.opportunities[k]
              IN  /\ o.buy_dex \in DOMAIN arb.prices
                  /\ o.sell_dex \in DOMAIN arb.prices
                  /\ o.buy_dex # o.sell_dex
                  /\ o.buy_price = arb.prices[o.buy_dex].price
                  /\ o.sell_price = arb.prices[o.sell_dex].price
                  /\ o.buy_price <= o.sell_price
                  /\ o.expected_profit_pct * o.buy_price
                         <= (o.sell_price - o.buy_price) * 10000
                  /\ (o.sell_price - o.buy_price) * 10000
                         < (o.expected_profit_pct + 1) * o.buy_price
                  /\ o.expected_profit_pct >= 0
        /\ ExampleTable =>
              /\ Len(arb.opportunities) = 1
              /\ arb.opportunities[1].buy_price = 10000
              /\ arb.opportunities[1].sell_price = 10300
              /\ arb.opportunities[1].expected_profit_pct = 300

\* The example table swept with the dearer venue first.
C22_Witness ==
    /\ ExampleTable
    /\ arb.prices[arb.order[1]].price = 10300
    /\ Len(arb.opportunities) = 1
    /\ arb.opportunities[1].buy_dex = arb.order[2]

\* ------------------------------------------------------ pool cache claims
DistinctIds(list) ==
    \A i, j \in DOMAIN list : i # j => list[i].pool_id # list[j].pool_id
HasId(list, id) == \E i \in DOMAIN list : list[i].pool_id = id

\* C23: add_pool on a cache whose per-token lists hold distinct pool_ids
\* keeps each pool_id at most once per token: a pool whose pool_id is
\* present replaces that entry in place (length and the other positions
\* unchanged), any other pool is appended at the end; the lists of the
\* other tokens are untouched.
C23_AddPoolReplacesOrAppends ==
    [][(/\ cache_ret'.op = "add_pool"
        /\ \A t \in DOMAIN cache : DistinctIds(cache[t]))
       => LET token == cache_ret'.token_mint
              info == cache_ret'.pool_info
              old == PoolsOf(cache, token)
              new == PoolsOf(cache', token)
          IN  /\ \A t \in DOMAIN cache' : DistinctIds(cache'[t])
              /\ \A t \in DOMAIN cache \ {token} : cache'[t] = cache[t]
              /\ IF HasId(old, info.pool_id)
                   THEN /\ Len(new) = Len(old)
                        /\ \A i \in DOMAIN old :
                              new[i] = IF old[i].pool_id = info.pool_id
                                         THEN info ELSE old[i]
                   ELSE new = Append(old, info)]_vars

\* The last call added P1 with a price to a list that already held P1 and,
\* behind it, P2: P1 was replaced in its first position.
C23_Witness ==
    /\ cache_ret.op = "add_pool"
    /\ cache_ret.pool_info = PoolInfo("P1", 10300, 15000000)
    /\ cache_ret.token_mint \in DOMAIN cache
    /\ Len(cache[cache_ret.token_mint]) = 2
    /\ cache[cache_ret.token_mint][1] = cache_ret.pool_info
    /\ cache[cache_ret.token_mint][2].pool_id = "P2"

\* The last call was a mutating call that reported an error.
FailedWrite(ret) ==
    ret.op \in {"add_pool", "update_pool_price"} /\ ~ret.ok
\* The mutation asked by that call is present in cache c.
MutationIn(c, ret) ==
    LET list == PoolsOf(c, ret.token_mint)
    IN  IF ret.op = "add_pool"
          THEN \E i \in DOMAIN list : list[i] = ret.pool_info
          ELSE \A i \in DOMAIN list :
                  (/\ list[i].pool_id = ret.pool_id
                   /\ \A k \in 1..(i - 1) : list[k].pool_id # ret.pool_id)
                  => list[i].last_known_price = ret.price

\* C24: when add_pool or update_pool_price fails to write the cache file
\* the call reports an error and the in-memory cache keeps the mutation; a
\* get_cache that follows returns the added pool or the updated price.
C24_FailedSaveKeepsMutation ==
    [][/\ FailedWrite(cache_ret') => MutationIn(cache', cache_ret')
       /\ (FailedWrite(cache_ret) /\ cache_ret'.op = "get_cache")
             => MutationIn(cache_ret'.value, cache_ret)]_vars

\* The first add_pool failed to create the file: no file, one pool cached.
C24_Witness ==
    /\ cache_ret.op = "add_pool"
    /\ ~cache_ret.ok
    /\ cache_file = FileAbsent
    /\ PoolsOf(cache, cache_ret.token_mint) = <<cache_ret.pool_info>>

\* C25: after every add_pool or update_pool_price that returns success the
\* cache file loads as the in-memory cache.
C25_FileEqualsMemory ==
    (cache_ret.op \in {"add_pool", "update_pool_price"} /\ cache_ret.ok)
        => load(cache_file) = [ok |-> TRUE, cache |-> cache]

\* C26 as stated: loading yields an empty cache when the file is absent
\* and when it cannot be read as a cache, and the monitor goes on.
C26_UnreadableLoadsEmpty ==
    (cache_ret.op = "new" /\ cache_file.kind # "json")
        => cache_ret.ok /\ cache = EmptyCache

\* C26, amended: loading yields an empty cache when the file is absent and
\* the file's pools when it holds a cache; when the file exists but cannot
\* be read as a cache the load fails, PoolCacheManager::new fails and the
\* arbitrage monitor returns that error: no cache call follows.
C26_UnreadableAborts ==
    /\ [](cache_ret.op = "new" =>
            /\ cache_file.kind = "absent"
                 => cache_ret.ok /\ cache = EmptyCache
            /\ cache_file.kind = "json"
                 => cache_ret.ok /\ cache = cache_file.cache
            /\ cache_file.kind = "corrupt" => ~cache_ret.ok)
    /\ [][~(cache_ret.op = "new" /\ ~cache_ret.ok)]_vars

\* The manager was constructed over an unreadable file and failed.
C26_Witness ==
    /\ cache_ret.op = "new"
    /\ ~cache_ret.ok
    /\ cache_file = FileCorrupt

\* ------------------------------------------------- stream front end claims
\* C27: for a transaction whose log lines contain none of the buy, sell or
\* named-event markers, TradeInfoFromToken::from_json returns an error and
\* produces no trade event.
C27_UnmarkedLogsRejected ==
    (stream.kind = "txn" /\ stream.result # "skipped" /\ ~stream.marked)
        => stream.result \notin InstructionType

\* An update is taken from the stream in this step.
Taken == stream' # stream /\ stream'.replies = 0

\* C28: for every Ping taken from the stream exactly one reply is sent on
\* the sink before the next update is taken (the send may fail; it is made
\* once); Pong, transaction and other updates get no reply.
C28_OneReplyPerPing ==
    /\ [](/\ stream.kind # "ping" => stream.replies = 0 /\ stream.pc # "reply"
          /\ stream.kind = "ping" =>
                \/ stream.pc = "reply" /\ stream.replies = 0
                \/ stream.pc = "done" /\ stream.replies = 1)
    /\ [][(stream.kind = "ping" /\ Taken)
          => (stream.replies = 1 /\ stream.pc = "done")]_vars

\* A Ping has been answered and the loop is back at stream.next().
C28_Witness ==
    /\ stream.kind = "ping"
    /\ stream.replies = 1
    /\ stream.reply = "ok"
    /\ AtNext

\* C29 as stated: the keepalive task emits a ping on every tick for as long
\* as the event loop runs, whatever the outcome of earlier sends.
C29_KeepaliveNeverStops ==
    loop_pc # "stopped" => keepalive.pc # "stopped"

\* C29, amended: the keepalive task sends a ping at every tick, whatever
\* the event loop receives, until a send fails; after its first failed send
\* the task has stopped for good, also while the event loop runs on.
C29_KeepaliveUntilSendFails ==
    /\ [](keepalive.pc = "stopped" <=> keepalive.last = "err")
    /\ [][keepalive.pc = "stopped" => keepalive' = keepalive]_vars
    /\ [][(keepalive.pc = "wait" /\ keepalive' # keepalive)
          => keepalive'.pc = "send"]_vars
    /\ (keepalive.pc = "send") ~> (keepalive.pc # "send")

\* The keepalive task has stopped on a failed send; the loop still receives.
C29_Witness ==
    /\ keepalive.pc = "stopped"
    /\ keepalive.last = "err"
    /\ loop_pc = "recv"
    /\ stream.kind = "ping"

\* Steps after which the iteration ends without a purchase.
LoopRejections ==
    {"ParseError", "NoLogs", "PingReplyError", "SkipNotTarget",
     "SkipExceedsMax", "SkipBelowMin", "Duplicate", "SkipBuy"}

\* C30: the event loop stops only when the stream yields a transport error
\* or ends; a classification error, a failed ping reply and a rejected
\* admission each leave the loop at stream.next().
C30_LoopStopsOnlyOnStreamClose ==
    /\ loop_pc = "stopped" => stream.kind \in {"err", "end"}
    /\ lastOp.op \in LoopRejections => loop_pc = "recv"

\* A ping reply has just failed and the loop is at stream.next().
C30_Witness ==
    /\ lastOp.op = "PingReplyError"
    /\ stream.reply = "err"
    /\ AtNext

\* -------------------------------------------------- subscription claims
SetupDone == sub.pc \in {"monitoring", "failed"}
NothingStarted ==
    /\ stream = NoMessage
    /\ keepalive = KeepaliveStart
    /\ buyTasks = EmptyBag
    /\ lastOp = Op("Init", NoMint)

AtSuspension(t) == At(t).op \in {"await", "lock_await"}

WaitsFor(t, u) ==
    /\ At(t).op \in {"lock", "lock_await"}
    /\ holder[At(t).arg] = u
\* t waits for a task that waits for a task ... n times over: with n the
\* number of tasks, the chain returns to a task it has passed.
RECURSIVE WaitChain(_, _)
WaitChain(t, n) ==
    \/ n = 0
    \/ /\ At(t).op \in {"lock", "lock_await"}
       /\ holder[At(t).arg] # Unlocked
       /\ WaitChain(holder[At(t).arg], n - 1)
Deadlocked == \E t \in Running : WaitChain(t, Cardinality(Running))

\* C38: no task waits in a cycle of tasks that wait for each other, and a task that locks one of
\* ledger and BUYING_ENABLED while it holds the other holds BUYING_ENABLED
\* and locks the ledger.
C38_FlagBeforeLedger ==
    /\ ~Deadlocked
    /\ \A t \in Running :
         (/\ At(t).op = "lock"
          /\ At(t).arg \in {"ledger", "buying_enabled"}
          /\ Held(t) \cap {"ledger", "buying_enabled"} # {})
         => (Held(t) = {"buying_enabled"} /\ At(t).arg = "ledger")

\* The buy task, in its failure arm, holds BUYING_ENABLED and waits for
\* the ledger, which the sweep holds while the forced-sell task waits for
\* it too.
C38_Witness ==
    /\ "buy" \in Running
    /\ WaitsFor("buy", "sweep")
    /\ holder["buying_enabled"] = "buy"
    /\ At("buy").arg = "ledger"
    /\ WaitsFor("forced_sell", "sweep")

\* ---------------------------------------------------------------- C33
\* C33: the price history of every mint holds at most 100 samples, and a
\* step that changes a history appends one sample, after dropping the
\* oldest one if the history was full.
C33_HistoryCapped ==
    /\ [](\A m \in Mints :
             Len(tracking[m].price_history) <= HISTORY_LIMIT)
    /\ [][\A m \in Mints :
            LET h == tracking[m].price_history
                h2 == tracking'[m].price_history
            IN h2 # h =>
                 /\ Len(h2) > 0
                 /\ h2 = (IF Len(h) = HISTORY_LIMIT THEN Tail(h) ELSE h)
                            \o <<h2[Len(h2)]>>]_vars

\* Two price tasks of the same mint are between their lock scopes while
\* the full history has already lost its three oldest samples.
C33_Witness ==
    /\ priceTasks[1].mint = 1 /\ priceTasks[1].pc \in {"peak", "check"}
    /\ priceTasks[2].mint = 1 /\ priceTasks[2].pc \in {"peak", "check"}
    /\ Len(tracking[1].price_history) = HISTORY_LIMIT
    /\ tracking[1].price_history[1][2] = 4

\* ---------------------------------------------------------------- C39
\* C39: the top_pnl of a tracked mint never decreases.
C39_TopPnlNeverDecreases ==
    [][\A m \in Mints :
          tracking[m].present => tracking'[m].top_pnl >= tracking[m].top_pnl]_vars

\* ---------------------------------------------------------------- C34
\* Forced-sell tasks of mint m that have not recorded an outcome.
Selling(b, m) == CopiesIn([mint |-> m, pc |-> "run"], b)

\* C34: every mint the scan of a tick selects belongs to an entry that is
\* Bought and older than MAX_WAIT_TIME at the scan; the tick starts forced
\* sells for the selected mints only, and no other step starts one.
C34_OnlyTimedOutBoughtSold ==
    [][/\ lastOp'.op = "SweepScan" =>
            \A m \in tokens_to_sell' :
                \E p \in pools :
                    /\ p.mint = m
                    /\ p.status = "Bought"
                    /\ p.timestamp # None
                    /\ now - p.timestamp > MAX_WAIT_TIME
       /\ \A m \in Mints :
            Selling(sellTasks', m) > Selling(sellTasks, m)
            => (lastOp'.op = "SweepUpdate" /\ m \in tokens_to_sell)
      ]_vars

\* A tick has started a forced sell while the ledger holds another entry
\* that it left alone.
C34_Witness ==
    /\ lastOp.op = "SweepUpdate"
    /\ lastOp.spawned # {}
    /\ \E p \in pools : p.mint \notin lastOp.spawned
    /\ \A m \in Mints : Selling(sellTasks, m) > 0 <=> m \in lastOp.spawned

\* ---------------------------------------------------------------- C37
\* C37: at most one forced-sell task per mint is in flight.
C37_OneForcedSellPerMint ==
    \A m \in Mints : Selling(sellTasks, m) <= 1

\* ---------------------------------------------------------------- C35
\* The rules of the classification, line by line: the buy marker with a
\* buy program-data prefix in any line, the sell marker with a sell prefix
\* in any line, the PumpSwap program line with an event line to take.
BuyRule(logs, i) ==
    logs[i] = "buy_instruction" /\ Contains(logs, "buy_program_data")
SellRule(logs, i) ==
    logs[i] = "sell_instruction" /\ Contains(logs, "sell_program_data")
EventLines(logs) ==
    {k \in DOMAIN logs : logs[k] \in {"BuyEvent", "SellEvent", "ArbitrageEvent"}}
FallbackRule(logs, i) ==
    logs[i] = "pump_program" /\ EventLines(logs) # {}
Satisfying(logs) ==
    {i \in DOMAIN logs :
        BuyRule(logs, i) \/ SellRule(logs, i) \/ FallbackRule(logs, i)}
Least(S) == CHOOSE i \in S : \A j \in S : i <= j
EventType(line) ==
    CASE line = "BuyEvent" -> "SwapBuy"
      [] line = "SellEvent" -> "SwapSell"
      [] line = "ArbitrageEvent" -> "ArbitrageSwap"

\* C35: when some line satisfies a rule, the first such line fixes the
\* type: SwapBuy by the buy rule, SwapSell by the sell rule, and by the
\* fallback the type of the first event line; later lines do not count.
C35_FirstMatchWins ==
    LET logs == classified.logs
    IN  Satisfying(logs) # {} =>
          LET i == Least(Satisfying(logs))
          IN  classified.result =
                IF BuyRule(logs, i) THEN "SwapBuy"
                ELSE IF SellRule(logs, i) THEN "SwapSell"
                ELSE EventType(logs[Least(EventLines(logs))])

\* ---------------------------------------------------------------- C36
SeqRange(q) == {q[k] : k \in DOMAIN q}

\* C36: the opportunities of a sweep are the same, venue pair by venue
\* pair and with the same buy and sell sides, for every order in which the
\* venues of the token can be enumerated.
C36_OrderIndependent ==
    arb.op = "sweep" =>
        \A order \in Orders(DOMAIN arb.prices) :
            SeqRange(Opportunities(arb.prices, order, cache,
                                   arbitrage_threshold_pct, min_liquidity))
                = SeqRange(arb.opportunities)

\* ---------------------------------------------------------------- C40
\* C40: a forced sell is built with 10000 bps, and the min_quote_amount_out
\* of its swap instruction is 0 whatever the quoted amount.
C40_ForcedSellMinZero ==
    amm.op = "build_sell" =>
        /\ amm.slippage_bps = TEN_THOUSAND
        /\ amm.quote_amount = 0

\* A forced sell of a whole balance that quotes a positive amount out.
C40_Witness ==
    /\ amm.op = "build_sell"
    /\ amm.ok
    /\ amm.quote_amount_out > 1000
    /\ amm.quote_amount = 0

====
